---- MODULE Spec2Model ----
(***************************************************************************)
(* Model of the day-ahead price service (api_server.py, ha_entsoe.py).     *)
(*                                                                         *)
(* Units.  Prices are integers in milli-cent per kWh (0.001 ct/kWh), so    *)
(* that the three-decimal figures of the day report are integers and the   *)
(* thresholds 0.3, gap * 0.5 and gap * 0.25 are exact for the gaps drawn   *)
(* here (all multiples of 4).  Times are integers in minutes.  In the day  *)
(* processor a local wall-clock string "YYYY-MM-DD HH:MM" is the number of *)
(* minutes since local midnight of day 0 (day * 1440 + minute of day); the *)
(* server clock and Europe/Amsterdam are taken to agree on the date.       *)
(* A resolution text is a sequence of one-character strings.               *)
(***************************************************************************)
EXTENDS Integers, Sequences, FiniteSets, TLC

VARIABLES
    \* ---- day processor (api_server.py) ----
    all_prices,          \* rows returned by entsoe.get_day_ahead_prices
    req,                 \* query parameters of /energy/prices/cheapest-advanced
    hours,               \* query parameter of /energy/prices/cheapest-basic
    consecutive,         \* query parameter of /energy/prices/cheapest-basic
    now,                 \* the wall clock, datetime.now(NL_TZ)
    pc,                  \* position of the request handler
    day_data,            \* argument built by the endpoint for process_day_data
    resolution_minutes,  \* process_day_data local
    filtered_slots,      \* process_day_data local
    attempts,            \* <<[gap, groups]>> one entry per group_consecutive_slots call
    current_price_gap,   \* process_day_data local
    fallback_applied,    \* process_day_data local
    grouped_slots,       \* process_day_data local
    now_pdd,             \* process_day_data local `now` (line 987)
    time_blocks,         \* process_day_data local
    expensive_hour,      \* result of find_most_expensive_hour
    filter_now,          \* clock value seen by the future-slot filter (ghost)
    result,              \* the response of the handler
    \* ---- normalisation pipeline (ha_entsoe.py) ----
    ts,                  \* one TimeSeries element of the upstream document
    items,               \* Series Items produced by ts_points_to_series
    merged,              \* result of a direct coalesce_by_timestamp call
    prefer,              \* policy of that call
    rows,                \* result of rows_from_items_price / _quantity
    npc,                 \* position of the pipeline
    \* ---- direct calls of helper functions ----
    call,                \* [fn, args]: the function called and its arguments
    ret,                 \* what the call returned
    \* ---- a second request served at the same time over the same rows ----
    peer_req,            \* its query parameters
    peer_pc,             \* its position
    peer_day_data,       \* the day_data its endpoint built
    peer_result,         \* its response
    \* ---- the planning helper suggest_automation (ha_entsoe.py) ----
    plan_d,              \* the date asked for
    skip_a68,            \* the toggle SKIP_A68_FOR_FUTURE
    plan_pc,             \* position of suggest_automation
    requested,           \* documentType of every request_entsoe call, in order
    upstream,            \* what the upstream holds: [prices, gen, load_da, fails]
    plan_prices,         \* local prices
    plan_gen,            \* local gen, as far as it has been fetched
    plan_load,           \* local da_rows / load["day_ahead"]
    plan_result,         \* the returned plan, or the exception raised
    \* ---- the HTTP wrapper and its file cache (ha_entsoe.py) ----
    api_key,             \* whether ENTSOE_API_KEY is set
    wall,                \* time.time(), in seconds
    cache_file,          \* CACHE_DIR / "A44_{zone}_{d}.xml": [text, mtime] or None
    cache_ttl_s,         \* argument cache_ttl_s of the running call
    client_pc,           \* position of get_day_ahead_prices
    attempt,             \* HTTP attempts made by the running call
    last_response,       \* what the latest attempt met: a status or an exception
    last_exc,            \* local last_exc of request_entsoe
    xml_result,          \* what request_entsoe returned or raised
    prices_result,       \* what get_day_ahead_prices returned or raised
    calls,               \* number of get_day_ahead_prices calls made for the key
    returned_rows        \* whether one of these calls has returned rows

dayVars == <<all_prices, req, hours, consecutive, now, pc, day_data, resolution_minutes,
             filtered_slots, attempts, current_price_gap, fallback_applied,
             grouped_slots, now_pdd, time_blocks, expensive_hour, filter_now,
             result>>
normVars == <<ts, items, merged, prefer, rows, npc>>
callVars == <<call, ret>>
pairVars == <<peer_req, peer_pc, peer_day_data, peer_result>>
planVars == <<plan_d, skip_a68, plan_pc, requested, upstream, plan_prices,
              plan_gen, plan_load, plan_result>>
clientVars == <<api_key, wall, cache_file, cache_ttl_s, client_pc, attempt,
                last_response, last_exc, xml_result, prices_result, calls,
                returned_rows>>
extVars == <<pairVars, planVars, clientVars>>
vars == <<dayVars, normVars, callVars, extVars>>

\* Python's Optional: None is the empty sequence, a value v is <<v>>
None == <<>>
Some(v) == <<v>>
Val(o) == o[1]

-----------------------------------------------------------------------------
(* Bounds of the model *)

NSlots == 4          \* number of day positions a fetched row list can cover
MaxClock == 376      \* the clock stops here (minute of day Today)
MaxPoints == 3       \* number of Point elements of an upstream TimeSeries

-----------------------------------------------------------------------------
(* Generic list helpers *)

Min2(a, b) == IF a <= b THEN a ELSE b
Max2(a, b) == IF a >= b THEN a ELSE b

RECURSIVE SumSeq(_)
SumSeq(s) == IF s = <<>> THEN 0 ELSE Head(s) + SumSeq(Tail(s))

RECURSIVE FilterSeq(_, _)
\* keep the elements of s whose index is in the set keep (list comprehension)
FilterSeq(s, keep) ==
    IF s = <<>> THEN <<>>
    ELSE LET n == Len(s)
             front == FilterSeq(SubSeq(s, 1, n - 1), keep)
         IN IF n \in keep THEN Append(front, s[n]) ELSE front

\* keys are rationals <<numerator, denominator>> with denominator > 0
KeyLess(k1, k2) == k1[1] * k2[2] < k2[1] * k1[2]

RECURSIVE SortedIdx(_, _)
\* indices 1..n of keys in the order Python's stable sorted() puts them
SortedIdx(keys, n) ==
    IF n = 0 THEN <<>>
    ELSE LET prevIdx == SortedIdx(keys, n - 1)
             \* n goes before the first element with a strictly greater key
             firstGreater ==
                 IF \E k \in 1..Len(prevIdx) : KeyLess(keys[n], keys[prevIdx[k]])
                 THEN CHOOSE k \in 1..Len(prevIdx) :
                        /\ KeyLess(keys[n], keys[prevIdx[k]])
                        /\ \A j \in 1..(k - 1) : ~KeyLess(keys[n], keys[prevIdx[j]])
                 ELSE Len(prevIdx) + 1
         IN SubSeq(prevIdx, 1, firstGreater - 1) \o <<n>>
            \o SubSeq(prevIdx, firstGreater, Len(prevIdx))

SortedBy(s, keys) ==
    LET idx == SortedIdx(keys, Len(s)) IN [i \in 1..Len(s) |-> s[idx[i]]]

\* Python's max(list, key=...): the first element with the greatest key
MaxByPrice(s) ==
    LET i == CHOOSE i \in 1..Len(s) :
                /\ \A j \in 1..Len(s) : s[j].ct_per_kwh <= s[i].ct_per_kwh
                /\ \A j \in 1..(i - 1) : s[j].ct_per_kwh < s[i].ct_per_kwh
    IN s[i]

Prices(s) == [i \in 1..Len(s) |-> s[i].ct_per_kwh]

RECURSIVE MinSeq(_)
MinSeq(s) == IF Len(s) = 1 THEN s[1] ELSE Min2(Head(s), MinSeq(Tail(s)))
RECURSIVE MaxSeq(_)
MaxSeq(s) == IF Len(s) = 1 THEN s[1] ELSE Max2(Head(s), MaxSeq(Tail(s)))

\* round(num / den, 3) in milli-cent: nearest integer, ties to even
Round3(num, den) ==
    LET q == num \div den
        r2 == 2 * (num - q * den)
    IN IF r2 < den THEN q
       ELSE IF r2 > den THEN q + 1
       ELSE IF q % 2 = 0 THEN q ELSE q + 1

-----------------------------------------------------------------------------
(* Resolution texts *)

PT15M == <<"P", "T", "1", "5", "M">>
PT60M == <<"P", "T", "6", "0", "M">>
PT1H == <<"P", "T", "1", "H">>

UpperChar(c) ==
    CASE c = "p" -> "P" [] c = "t" -> "T" [] c = "m" -> "M"
      [] c = "h" -> "H" [] c = "d" -> "D" [] OTHER -> c

Upper(txt) == [i \in 1..Len(txt) |-> UpperChar(txt[i])]

\* Python's `sub in txt`
Contains(sub, txt) ==
    \E i \in 0..(Len(txt) - Len(sub)) :
        \A j \in 1..Len(sub) : txt[i + j] = sub[j]

-----------------------------------------------------------------------------
(* Time helpers of api_server.py *)

DayMinutes == 1440
Today == 1

\* a text that strptime(hour_local, "%Y-%m-%d %H:%M") rejects is the number
\* Garbage; every other hour_local is a minute count from day 0 on
Garbage == -1
Parseable(hour_local) == hour_local # Garbage

DateOf(t) == t \div DayMinutes
HourOf(hour_local) == (hour_local % DayMinutes) \div 60

\* variant: the early hours end at 05:00
belongs_to_today_from_five(hour_local) ==
    IF Parseable(hour_local) THEN HourOf(hour_local) >= 5 ELSE TRUE

belongs_to_today(hour_local) ==
    IF Parseable(hour_local) THEN HourOf(hour_local) >= 6 ELSE TRUE

\* variant: a slot is past from the instant it ends
is_past_slot_inclusive(hour_local, slot_date, res_min, clock) ==
    LET today == DateOf(clock)
        end_dt == hour_local + res_min
    IN IF slot_date < today THEN TRUE
       ELSE IF slot_date > today THEN FALSE
       ELSE IF ~Parseable(hour_local) THEN FALSE
       ELSE clock >= end_dt

\* clock is the value datetime.now(NL_TZ) returns inside the call
is_past_slot(hour_local, slot_date, res_min, clock) ==
    LET today == DateOf(clock)
        end_dt == hour_local + res_min
    IN IF slot_date < today THEN TRUE
       ELSE IF slot_date > today THEN FALSE
       ELSE IF ~Parseable(hour_local) THEN FALSE
       ELSE clock > end_dt

\* variant: every slot counts as current or future
is_current_or_future_slot_always(hour_local, slot_date, res_min, clock) == TRUE

is_current_or_future_slot(hour_local, slot_date, res_min, clock) ==
    ~is_past_slot(hour_local, slot_date, res_min, clock)

detect_resolution(slots) ==
    IF Len(slots) < 2 THEN 60
    ELSE LET res_text == Upper(slots[1].resolution)
             diff_min == slots[2].hour_local - slots[1].hour_local
         IN IF Contains(PT15M, res_text) THEN 15
            ELSE IF Contains(PT60M, res_text) \/ Contains(PT1H, res_text) THEN 60
            ELSE IF diff_min = 15 THEN 15
            ELSE 60

\* "HH:MM - HH:MM": both ends are printed without their date
format_time_range(start, end, res_min) ==
    [from |-> start % DayMinutes, to |-> (end + res_min) % DayMinutes]

calculate_total_duration(positions, res_min) ==
    IF positions = <<>> THEN 0 ELSE Len(positions) * res_min

-----------------------------------------------------------------------------
(* Block Grouping Engine *)

\* variant: a new group starts without the position of its first slot
NewGroup_without_position(slot) ==
    [start |-> slot.hour_local, end |-> slot.hour_local,
     slots |-> <<slot>>, positions |-> <<>>,
     min_price |-> slot.ct_per_kwh, max_price |-> slot.ct_per_kwh]

NewGroup(slot) ==
    [start |-> slot.hour_local, end |-> slot.hour_local,
     slots |-> <<slot>>, positions |-> <<slot.position>>,
     min_price |-> slot.ct_per_kwh, max_price |-> slot.ct_per_kwh]

\* variant: the price of the new slot is compared with its predecessor only
can_merge_prev_only(current_group, prev, curr, max_gap_minutes, max_price_gap_ct, res_min) ==
    LET position_diff == curr.position - prev.position
        time_gap_minutes == position_diff * res_min
        diff == Max2(prev.ct_per_kwh, curr.ct_per_kwh)
                - Min2(prev.ct_per_kwh, curr.ct_per_kwh)
    IN /\ time_gap_minutes <= max_gap_minutes + res_min
       /\ diff <= max_price_gap_ct

\* variant: the comparison with the price threshold is reversed
can_merge_reversed(current_group, prev, curr, max_gap_minutes, max_price_gap_ct, res_min) ==
    LET position_diff == curr.position - prev.position
        time_gap_minutes == position_diff * res_min
        potential_min == Min2(current_group.min_price, curr.ct_per_kwh)
        potential_max == Max2(current_group.max_price, curr.ct_per_kwh)
        potential_price_gap == potential_max - potential_min
    IN /\ time_gap_minutes <= max_gap_minutes + res_min
       /\ potential_price_gap >= max_price_gap_ct

can_merge(current_group, prev, curr, max_gap_minutes, max_price_gap_ct, res_min) ==
    LET position_diff == curr.position - prev.position
        time_gap_minutes == position_diff * res_min
        potential_min == Min2(current_group.min_price, curr.ct_per_kwh)
        potential_max == Max2(current_group.max_price, curr.ct_per_kwh)
        potential_price_gap == potential_max - potential_min
    IN /\ time_gap_minutes <= max_gap_minutes + res_min
       /\ potential_price_gap <= max_price_gap_ct

RECURSIVE GroupLoop(_, _, _, _, _, _, _)
\* the for loop of group_consecutive_slots from index i on, and the final append
GroupLoop(sorted_slots, i, groups, current_group, max_gap_minutes, max_price_gap_ct, res_min) ==
    IF i > Len(sorted_slots) THEN Append(groups, current_group)
    ELSE LET prev == sorted_slots[i - 1]
             curr == sorted_slots[i]
         IN IF can_merge(current_group, prev, curr, max_gap_minutes,
                         max_price_gap_ct, res_min)
            THEN GroupLoop(sorted_slots, i + 1, groups,
                     [current_group EXCEPT
                        !.end = curr.hour_local,
                        !.slots = Append(@, curr),
                        !.positions = Append(@, curr.position),
                        !.min_price = Min2(@, curr.ct_per_kwh),
                        !.max_price = Max2(@, curr.ct_per_kwh)],
                     max_gap_minutes, max_price_gap_ct, res_min)
            ELSE GroupLoop(sorted_slots, i + 1, Append(groups, current_group),
                     NewGroup(curr), max_gap_minutes, max_price_gap_ct, res_min)

\* avg_price is kept exact, as the pair sum / count
WithAvg(group) ==
    [start |-> group.start, end |-> group.end, slots |-> group.slots,
     positions |-> group.positions, min_price |-> group.min_price,
     max_price |-> group.max_price,
     avg_price |-> <<SumSeq(Prices(group.slots)), Len(group.slots)>>]

\* variant: the groups are returned in time order
group_consecutive_slots_unsorted(slots, max_gap_minutes, max_price_gap_ct, res_min) ==
    IF slots = <<>> THEN <<>>
    ELSE LET sorted_slots ==
                 SortedBy(slots, [i \in 1..Len(slots) |-> <<slots[i].position, 1>>])
             groups == GroupLoop(sorted_slots, 2, <<>>, NewGroup(sorted_slots[1]),
                                 max_gap_minutes, max_price_gap_ct, res_min)
         IN [i \in 1..Len(groups) |-> WithAvg(groups[i])]

group_consecutive_slots(slots, max_gap_minutes, max_price_gap_ct, res_min) ==
    IF slots = <<>> THEN <<>>
    ELSE LET sorted_slots ==
                 SortedBy(slots, [i \in 1..Len(slots) |-> <<slots[i].position, 1>>])
             groups == GroupLoop(sorted_slots, 2, <<>>, NewGroup(sorted_slots[1]),
                                 max_gap_minutes, max_price_gap_ct, res_min)
             withAvg == [i \in 1..Len(groups) |-> WithAvg(groups[i])]
         IN SortedBy(withAvg, [i \in 1..Len(withAvg) |-> withAvg[i].avg_price])

-----------------------------------------------------------------------------
(* Extremum Finder *)

SingleSlotHour(most_expensive, res_min, duration) ==
    [time_range |-> format_time_range(most_expensive.hour_local,
                                      most_expensive.hour_local, res_min),
     duration_minutes |-> duration,
     avg_price |-> most_expensive.ct_per_kwh,
     min_price |-> most_expensive.ct_per_kwh,
     max_price |-> most_expensive.ct_per_kwh,
     slots |-> <<most_expensive>>]

Window(sorted_slots, i) == SubSeq(sorted_slots, i, i + 3)

\* variant: every window of four slots counts as one hour
is_consecutive_any(window) == TRUE

is_consecutive(window) ==
    \A j \in 1..(Len(window) - 1) :
        ~(window[j + 1].position - window[j].position > 1)

\* the window the loop leaves in best_window: the first one with the
\* greatest average (avg_price > max_avg is strict), or None
best_window(sorted_slots) ==
    LET starts == {i \in 1..(Len(sorted_slots) - 3) :
                      is_consecutive(Window(sorted_slots, i))}
        avg(i) == SumSeq(Prices(Window(sorted_slots, i)))  \* times 4
    IN IF starts = {} THEN None
       ELSE LET i == CHOOSE i \in starts :
                        /\ \A k \in starts : avg(k) <= avg(i)
                        /\ \A k \in starts : k < i => avg(k) < avg(i)
            IN Window(sorted_slots, i)

\* clock is the value the calls of is_current_or_future_slot read
find_most_expensive_hour(all_slots, slot_date, res_min, clock) ==
    IF all_slots = <<>> THEN None
    ELSE
    LET is_today == slot_date = DateOf(clock)
        future_slots ==
            IF is_today
            THEN FilterSeq(all_slots,
                     {i \in 1..Len(all_slots) :
                         is_current_or_future_slot(all_slots[i].hour_local,
                                                   slot_date, res_min, clock)})
            ELSE all_slots
    IN IF future_slots = <<>> THEN None
       ELSE IF res_min = 60
       THEN Some(SingleSlotHour(MaxByPrice(future_slots), res_min, 60))
       ELSE LET sorted_slots ==
                    SortedBy(future_slots,
                        [i \in 1..Len(future_slots) |-> <<future_slots[i].position, 1>>])
                best == best_window(sorted_slots)
            IN IF best # None
               THEN Some([time_range |-> format_time_range(best[1].hour_local,
                                             best[Len(best)].hour_local, res_min),
                          duration_minutes |-> 60,
                          avg_price |-> Round3(SumSeq(Prices(best)), Len(best)),
                          min_price |-> MinSeq(Prices(best)),
                          max_price |-> MaxSeq(Prices(best)),
                          slots |-> best])
               ELSE Some(SingleSlotHour(MaxByPrice(future_slots), res_min, 15))

-----------------------------------------------------------------------------
(* Fallback Controller: lines 927-972 of process_day_data *)

PRICE_GAP_FLOOR == 300      \* the literal 0.3 (ct/kWh) of lines 963-964

Attempt(slots, max_gap, gap, res_min) ==
    [gap |-> gap, groups |-> group_consecutive_slots(slots, max_gap, gap, res_min)]

\* whether the third grouping is tried after an insufficient second one
further_reduce(second, max_blocks) ==
    Len(second.groups) < max_blocks /\ second.gap > PRICE_GAP_FLOOR

\* the grouping attempts made, in order
FallbackAttempts(slots, max_blocks, max_gap, max_price_gap_ct, res_min) ==
    LET first == Attempt(slots, max_gap, max_price_gap_ct, res_min)
        second == Attempt(slots, max_gap, max_price_gap_ct \div 2, res_min)
        third == Attempt(slots, max_gap,
                         Max2(PRICE_GAP_FLOOR, max_price_gap_ct \div 4), res_min)
    IN IF ~(Len(first.groups) < max_blocks) THEN <<first>>
       ELSE IF further_reduce(second, max_blocks) THEN <<first, second, third>>
       ELSE <<first, second>>

-----------------------------------------------------------------------------
(* Day Processor: the blocks of the report *)

individual_slots(slots, slot_date, res_min, clock) ==
    [i \in 1..Len(slots) |->
        [time |-> slots[i].hour_local % DayMinutes,
         price |-> slots[i].ct_per_kwh,
         is_past |-> is_past_slot(slots[i].hour_local, slot_date, res_min, clock)]]

\* avg < avg_price * 0.85, avg_price being the day average sum / count
is_best(avg, day_avg) ==
    avg[1] * 100 * day_avg[2] < 85 * day_avg[1] * avg[2]

block_data(rank, group, slot_date, res_min, day_avg, captured_now, clock) ==
    LET prices == Prices(group.slots)
        avg == <<SumSeq(prices), Len(prices)>>
        last_slot == group.slots[Len(group.slots)]
        last_slot_end == last_slot.hour_local + res_min
        is_past_block == captured_now > last_slot_end
    IN [rank |-> rank,
        time_range |-> format_time_range(group.start, group.end, res_min),
        duration_minutes |-> calculate_total_duration(group.positions, res_min),
        actual_slot_count |-> Len(group.slots),
        avg |-> avg,
        avg_price |-> Round3(avg[1], avg[2]),
        min_price |-> MinSeq(prices),
        max_price |-> MaxSeq(prices),
        price_variance |-> MaxSeq(prices) - MinSeq(prices),
        is_best |-> is_best(avg, day_avg),
        is_future |-> ~is_past_block,
        individual_slots |-> individual_slots(group.slots, slot_date, res_min, clock)]

\* variant: every group becomes a time block
selected_blocks_all(groups, max_blocks) == groups

\* grouped_slots[:max_blocks]
selected_blocks(groups, max_blocks) ==
    SubSeq(groups, 1, Min2(max_blocks, Len(groups)))

future_count(blocks) == Cardinality({i \in 1..Len(blocks) : blocks[i].is_future})

-----------------------------------------------------------------------------
(* ha_entsoe.py: resolution resolver and time-axis reconstruction *)


DigitVal(c) ==
    CASE c = "0" -> 0 [] c = "1" -> 1 [] c = "2" -> 2 [] c = "3" -> 3
      [] c = "4" -> 4 [] c = "5" -> 5 [] c = "6" -> 6 [] c = "7" -> 7
      [] c = "8" -> 8 [] c = "9" -> 9

RECURSIVE DecimalOf(_)
DecimalOf(txt) ==
    IF txt = <<>> THEN 0
    ELSE 10 * DecimalOf(SubSeq(txt, 1, Len(txt) - 1)) + DigitVal(txt[Len(txt)])

\* int(txt) for an unsigned decimal text; None when int() raises ValueError
ParseInt(txt) ==
    IF txt # <<>> /\ \A i \in 1..Len(txt) : txt[i] \in {"0", "1", "2", "3", "4",
                                                    "5", "6", "7", "8", "9"}
    THEN Some(DecimalOf(txt)) ELSE None

StartsWithPT(r) == Len(r) >= 2 /\ r[1] = "P" /\ r[2] = "T"
EndsWith(r, c) == Len(r) >= 1 /\ r[Len(r)] = c

P1D == <<"P", "1", "D">>

\* the timedelta in minutes; None when the call raises (int() on a bad number)
resolve_resolution_to_timedelta(res_text) ==
    IF res_text = None \/ Val(res_text) = <<>> THEN Some(60)
    ELSE LET r == Upper(Val(res_text))
             number == ParseInt(SubSeq(r, 3, Len(r) - 1))
         IN IF StartsWithPT(r) /\ EndsWith(r, "M")
            THEN (IF number = None THEN None ELSE Some(Val(number)))
            ELSE IF StartsWithPT(r) /\ EndsWith(r, "H")
            THEN (IF number = None THEN None ELSE Some(60 * Val(number)))
            ELSE IF r = P1D THEN Some(DayMinutes)
            ELSE Some(60)

\* UTC instants are minutes since 22:00 UTC of the eve of the requested day,
\* which is local midnight while daylight-saving time (UTC+2) is in force.
MidnightUtc == 120   \* datetime(d.year, d.month, d.day, 0, 0, tzinfo=utc)
DstEnd == 180        \* 01:00 UTC: the zone falls back from UTC+2 to UTC+1

\* stamp_utc.astimezone(local_tz): the aware local datetime.  wall is its
\* wall-clock reading (minutes since local midnight), utc the instant it denotes.
astimezone(stamp_utc) ==
    [utc |-> stamp_utc,
     wall |-> IF stamp_utc < DstEnd THEN stamp_utc ELSE stamp_utc - 60]

\* Comparison, hashing and ordering of two aware datetimes that share one
\* tzinfo object look at the wall-clock fields only.
DtKey(dt) == dt.wall

\* int(float(pos_txt)) for the unsigned whole-number texts drawn here;
\* None when the conversion raises
ParsePosition(pos_txt) == ParseInt(pos_txt)

\* variant: the position is taken as zero-based
PointItems_zero_based(points, start_dt_utc, res_td, res_text) ==
    LET ok == {i \in 1..Len(points) :
                  points[i].position # <<>> /\ ParsePosition(points[i].position) # None}
        kept == FilterSeq(points, ok)
    IN [i \in 1..Len(kept) |->
           [timestamp_local |->
                astimezone(start_dt_utc
                           + Val(ParsePosition(kept[i].position)) * res_td),
            price |-> kept[i].price,
            quantity |-> kept[i].quantity,
            resolution |-> IF res_text = None \/ Val(res_text) = <<>>
                           THEN PT60M ELSE Val(res_text)]]

\* the items of one run of points under one start and one resolution
PointItems(points, start_dt_utc, res_td, res_text) ==
    LET ok == {i \in 1..Len(points) :
                  points[i].position # <<>> /\ ParsePosition(points[i].position) # None}
        kept == FilterSeq(points, ok)
    IN [i \in 1..Len(kept) |->
           [timestamp_local |->
                astimezone(start_dt_utc
                           + (Val(ParsePosition(kept[i].position)) - 1) * res_td),
            price |-> kept[i].price,
            quantity |-> kept[i].quantity,
            resolution |-> IF res_text = None \/ Val(res_text) = <<>>
                           THEN PT60M ELSE Val(res_text)]]

StartOf(start_text) == IF start_text = None THEN MidnightUtc ELSE Val(start_text)

\* ts.findtext(".//{*}resolution"): the first resolution element of the series
TsResolutionText(t) ==
    IF t.resolution # None THEN t.resolution
    ELSE IF \E k \in 1..Len(t.periods) : t.periods[k].resolution # None
    THEN t.periods[CHOOSE k \in 1..Len(t.periods) :
                      /\ t.periods[k].resolution # None
                      /\ \A j \in 1..(k - 1) : t.periods[j].resolution = None].resolution
    ELSE None

PeriodResText(t, k) ==
    IF t.periods[k].resolution # None /\ Val(t.periods[k].resolution) # <<>>
    THEN t.periods[k].resolution ELSE TsResolutionText(t)

RECURSIVE PeriodsItems(_, _)
\* the items of periods 1..k in document order
PeriodsItems(t, k) ==
    IF k = 0 THEN <<>>
    ELSE LET res_text == PeriodResText(t, k)
             res_td == resolve_resolution_to_timedelta(res_text)
         IN PeriodsItems(t, k - 1)
            \o PointItems(t.periods[k].points, StartOf(t.periods[k].start),
                          Val(res_td), res_text)

\* None when resolve_resolution_to_timedelta raises
ts_points_to_series(t) ==
    IF t.periods = <<>>
    THEN LET res_td == resolve_resolution_to_timedelta(t.resolution)
         IN IF res_td = None THEN None
            ELSE Some(PointItems(t.points, StartOf(t.start), Val(res_td),
                                 t.resolution))
    ELSE IF \E k \in 1..Len(t.periods) :
               resolve_resolution_to_timedelta(PeriodResText(t, k)) = None
    THEN None
    ELSE Some(PeriodsItems(t, Len(t.periods)))

-----------------------------------------------------------------------------
(* ha_entsoe.py: deduplication and row normalisation *)

\* the distinct keys in order of first occurrence (dict insertion order)
RECURSIVE BucketKeys(_)
BucketKeys(its) ==
    IF its = <<>> THEN <<>>
    ELSE LET front == BucketKeys(SubSeq(its, 1, Len(its) - 1))
             key == DtKey(its[Len(its)].timestamp_local)
         IN IF \E i \in 1..Len(front) : front[i] = key THEN front
            ELSE Append(front, key)

Bucket(its, key) ==
    FilterSeq(its, {i \in 1..Len(its) : DtKey(its[i].timestamp_local) = key})

\* the non-null values of a bucket, and their mean (None for no value)
NonNull(vals) ==
    LET kept == FilterSeq(vals, {i \in 1..Len(vals) : vals[i] # None})
    IN [i \in 1..Len(kept) |-> Val(kept[i])]

MeanOf(vals) ==
    IF NonNull(vals) = <<>> THEN None
    ELSE Some(SumSeq(NonNull(vals)) \div Len(NonNull(vals)))

\* variant: the two policies are swapped
MergeBucket_swapped(arr, policy) ==
    IF policy = "last" THEN arr[1]
    ELSE IF policy = "first" THEN arr[Len(arr)]
    ELSE [arr[Len(arr)] EXCEPT
            !.price = MeanOf([i \in 1..Len(arr) |-> arr[i].price]),
            !.quantity = MeanOf([i \in 1..Len(arr) |-> arr[i].quantity])]

MergeBucket(arr, policy) ==
    IF policy = "last" THEN arr[Len(arr)]
    ELSE IF policy = "first" THEN arr[1]
    ELSE [arr[Len(arr)] EXCEPT
            !.price = MeanOf([i \in 1..Len(arr) |-> arr[i].price]),
            !.quantity = MeanOf([i \in 1..Len(arr) |-> arr[i].quantity])]

\* variant: the merged items are returned in reverse bucket order, unsorted
coalesce_by_timestamp_reversed(its, policy) ==
    LET keys == BucketKeys(its)
        unsorted == [k \in 1..Len(keys) |-> MergeBucket(Bucket(its, keys[k]), policy)]
    IN [k \in 1..Len(unsorted) |-> unsorted[Len(unsorted) + 1 - k]]

coalesce_by_timestamp(its, policy) ==
    LET keys == BucketKeys(its)
        unsorted == [k \in 1..Len(keys) |-> MergeBucket(Bucket(its, keys[k]), policy)]
    IN SortedBy(unsorted,
           [k \in 1..Len(unsorted) |-> <<DtKey(unsorted[k].timestamp_local), 1>>])

\* v in EUR/MWh, the result in milli-cent per kWh (v / 10 ct/kWh)
eur_mwh_to_ct_kwh(v) == v * 100

\* strftime("%Y-%m-%d %H:%M") prints the wall-clock fields
strftime(dt) == dt.wall

\* the index enumerate(items, start=1) gives to the item at place i
EnumIndex(its, i) == i

rows_from_items_price(its) ==
    LET co == coalesce_by_timestamp(its, "last")
        kept == {i \in 1..Len(co) : co[i].price # None}
        numbered == [i \in 1..Len(co) |->
                        [position |-> EnumIndex(co, i),
                         hour_local |-> strftime(co[i].timestamp_local),
                         eur_per_mwh |-> IF co[i].price = None THEN 0
                                         ELSE Val(co[i].price),
                         ct_per_kwh |-> IF co[i].price = None THEN 0
                                        ELSE eur_mwh_to_ct_kwh(Val(co[i].price)),
                         resolution |-> co[i].resolution]]
    IN FilterSeq(numbered, kept)

rows_from_items_quantity(its, quantity_key_out) ==
    LET co == coalesce_by_timestamp(its, "last")
        kept == {i \in 1..Len(co) : co[i].quantity # None}
        numbered == [i \in 1..Len(co) |->
                        [position |-> EnumIndex(co, i),
                         hour_local |-> strftime(co[i].timestamp_local),
                         key |-> quantity_key_out,
                         value |-> IF co[i].quantity = None THEN 0
                                   ELSE Val(co[i].quantity),
                         resolution |-> co[i].resolution]]
    IN FilterSeq(numbered, kept)

-----------------------------------------------------------------------------
(* Inputs of the day processor *)

ResMinutesOf(res_text) == IF res_text = PT15M THEN 15 ELSE 60

\* the fetched rows cover the positions around 06:00 local time
PriceRow(position, price, res_text, slot_date) ==
    [position |-> position,
     hour_local |-> slot_date * DayMinutes + (position - 1) * ResMinutesOf(res_text),
     ct_per_kwh |-> price,
     resolution |-> res_text]

\* f maps each covered position to its price, or to None where the day has no row
RowsOf(f, n, res_text, slot_date) ==
    LET all == [i \in 1..n |->
                   IF f[i] = None THEN None
                   ELSE Some(PriceRow((IF res_text = PT15M THEN 22 ELSE 6) + i - 1, Val(f[i]),
                                      res_text, slot_date))]
        kept == FilterSeq(all, {i \in 1..n : f[i] # None})
    IN [i \in 1..Len(kept) |-> Val(kept[i])]

PriceLevels == {5000, 5200, 5550}
SpikeLevels == {5000, 50000}
SignLevels == {-5000, 0, 5000}
\* the last two quarter-hour boundaries up to MaxClock, and the minute after
\* each: 06:00, 06:01, 06:15, 06:16
ClockInstants == {t \in (MaxClock - 16)..MaxClock : t % 15 \in {0, 1}}

NoDayData == [cheapest_slots |-> <<>>, all_slots |-> <<>>,
              average_ct_per_kwh |-> <<0, 1>>]

DayIdle ==
    /\ all_prices = <<>> /\ now = 0 /\ pc = "idle"
    /\ req = [date |-> Today, max_blocks |-> 6, max_time_gap |-> 60,
              max_price_gap |-> 1500, price_threshold_pct |-> 50]
    /\ day_data = NoDayData /\ resolution_minutes = 0 /\ filtered_slots = <<>>
    /\ attempts = <<>> /\ current_price_gap = 0 /\ fallback_applied = FALSE
    /\ grouped_slots = <<>> /\ now_pdd = 0 /\ time_blocks = <<>>
    /\ expensive_hour = None /\ filter_now = 0 /\ result = None
    /\ hours = 4 /\ consecutive = FALSE

NormIdle ==
    /\ ts = [start |-> None, resolution |-> None, points |-> <<>>, periods |-> <<>>]
    /\ items = <<>> /\ merged = <<>> /\ prefer = "last"
    /\ rows = <<>> /\ npc = "idle"

CallIdle == call = [fn |-> "none", args |-> <<>>] /\ ret = None

PairIdle ==
    /\ peer_req = [date |-> Today, max_blocks |-> 6, max_time_gap |-> 60,
                   max_price_gap |-> 1500, price_threshold_pct |-> 50]
    /\ peer_pc = "idle" /\ peer_day_data = NoDayData /\ peer_result = None


PlanIdle ==
    /\ plan_d = Today /\ skip_a68 = TRUE /\ plan_pc = "idle"
    /\ requested = <<>>
    /\ upstream = [prices |-> <<>>, gen |-> <<>>, load_da |-> <<>>, fails |-> None]
    /\ plan_prices = <<>> /\ plan_gen = <<>> /\ plan_load = <<>>
    /\ plan_result = None

ClientIdle ==
    /\ api_key = TRUE /\ wall = 0 /\ cache_file = None /\ cache_ttl_s = 0
    /\ client_pc = "idle" /\ attempt = 0 /\ last_response = None
    /\ last_exc = None /\ xml_result = None /\ prices_result = None
    /\ calls = 0 /\ returned_rows = FALSE

ExtIdle == PairIdle /\ PlanIdle /\ ClientIdle

\* requests that exercise grouping and fallback: every position has a row
InitGrouping ==
    \E res_text \in {PT15M, PT60M}, slot_date \in {Today, Today + 1},
       f \in [1..NSlots -> {Some(p) : p \in PriceLevels}] :
        /\ all_prices = RowsOf(f, NSlots, res_text, slot_date)
        /\ \E g \in {400, 800, 1600}, mb \in {1, 2, 6}, tg \in {15, 60},
              pct \in {50, 100} :
              req = [date |-> slot_date, max_blocks |-> mb, max_time_gap |-> tg,
                     max_price_gap |-> g, price_threshold_pct |-> pct]
        /\ now = Today * DayMinutes + MaxClock

\* requests that exercise the avoid slot: rows may be missing, the clock runs
InitAvoid ==
    \E res_text \in {PT15M, PT60M}, slot_date \in {Today - 1, Today, Today + 1},
       f \in [1..(NSlots + 1) -> {Some(p) : p \in SpikeLevels} \cup {None}] :
        /\ all_prices = RowsOf(f, NSlots + 1, res_text, slot_date)
        /\ req = [date |-> slot_date, max_blocks |-> 6, max_time_gap |-> 60,
                  max_price_gap |-> 1500, price_threshold_pct |-> 50]
        /\ now \in {Today * DayMinutes + t : t \in ClockInstants}

\* days with negative and zero prices, among them days of one single price
InitSigned ==
    \E res_text \in {PT15M, PT60M}, slot_date \in {Today, Today + 1},
       f \in [1..NSlots -> {Some(p) : p \in SignLevels}] :
        /\ all_prices = RowsOf(f, NSlots, res_text, slot_date)
        /\ req = [date |-> slot_date, max_blocks |-> 6, max_time_gap |-> 60,
                  max_price_gap |-> 1500, price_threshold_pct |-> 50]
        /\ now = Today * DayMinutes + MaxClock

InitRequest ==
    /\ InitGrouping \/ InitAvoid \/ InitSigned
    /\ pc = "request"
    /\ day_data = NoDayData /\ resolution_minutes = 0 /\ filtered_slots = <<>>
    /\ attempts = <<>> /\ current_price_gap = 0 /\ fallback_applied = FALSE
    /\ grouped_slots = <<>> /\ now_pdd = 0 /\ time_blocks = <<>>
    /\ expensive_hour = None /\ filter_now = 0 /\ result = None
    /\ hours = 4 /\ consecutive = FALSE
    /\ CallIdle


\* direct calls of belongs_to_today and is_past_slot
InitTimeHelpers ==
    /\ \E h \in {Garbage} \cup {d * DayMinutes + m :
                                  d \in {Today - 1, Today, Today + 1},
                                  m \in {300, 345, 359, 360}},
          slot_date \in {Today - 1, Today, Today + 1},
          res_min \in {15, 60} :
          call = [fn |-> "pending", args |-> <<h, slot_date, res_min>>]
    /\ ret = None
    /\ now \in {Today * DayMinutes + t : t \in ClockInstants}
    /\ all_prices = <<>> /\ pc = "idle"
    /\ req = [date |-> Today, max_blocks |-> 6, max_time_gap |-> 60,
              max_price_gap |-> 1500, price_threshold_pct |-> 50]
    /\ day_data = NoDayData /\ resolution_minutes = 0 /\ filtered_slots = <<>>
    /\ attempts = <<>> /\ current_price_gap = 0 /\ fallback_applied = FALSE
    /\ grouped_slots = <<>> /\ now_pdd = 0 /\ time_blocks = <<>>
    /\ expensive_hour = None /\ filter_now = 0 /\ result = None
    /\ hours = 4 /\ consecutive = FALSE


\* requests of /energy/prices/cheapest-basic: rows may be missing, prices tie
InitBasic ==
    /\ \E res_text \in {PT15M, PT60M}, slot_date \in {Today, Today + 1},
          f \in [1..NSlots -> {Some(p) : p \in SpikeLevels} \cup {None}] :
          /\ all_prices = RowsOf(f, NSlots, res_text, slot_date)
          /\ req = [date |-> slot_date, max_blocks |-> 6, max_time_gap |-> 60,
                    max_price_gap |-> 1500, price_threshold_pct |-> 50]
    /\ hours \in {1, 2, 24} /\ consecutive \in BOOLEAN
    /\ now = Today * DayMinutes + MaxClock
    /\ pc = "basic_request"
    /\ day_data = NoDayData /\ resolution_minutes = 0 /\ filtered_slots = <<>>
    /\ attempts = <<>> /\ current_price_gap = 0 /\ fallback_applied = FALSE
    /\ grouped_slots = <<>> /\ now_pdd = 0 /\ time_blocks = <<>>
    /\ expensive_hour = None /\ filter_now = 0 /\ result = None
    /\ CallIdle

InitDay ==
    /\ InitRequest \/ InitBasic \/ InitTimeHelpers
    /\ NormIdle
    /\ ExtIdle

-----------------------------------------------------------------------------
(* GET /energy/prices/cheapest-advanced *)

\* lines 1568-1614: fetch, 404 on an empty day, the cheapest subset
CheapestSubset(prices, pct) ==
    LET n == Len(prices)
        byPrice == SortedBy(prices, [i \in 1..n |-> <<prices[i].ct_per_kwh, 1>>])
        threshold_index == (n * pct) \div 100
        price_threshold == byPrice[Min2(threshold_index, n - 1) + 1].ct_per_kwh
        cheapest == FilterSeq(prices,
                        {i \in 1..n : prices[i].ct_per_kwh <= price_threshold})
    IN IF Len(cheapest) < 3 THEN SubSeq(byPrice, 1, n \div 2) ELSE cheapest

\* the exception both endpoints raise for a day without rows; its message is
\* "Geen prijsdata beschikbaar voor <date>", kept here as the date it names
EntsoeServerError(message_date, status) ==
    [type |-> "EntsoeServerError", message_date |-> Some(message_date),
     status |-> status, code |-> "SERVER_ERROR"]

\* sum(prices) / len(prices) on an empty list
ZeroDivisionError == [type |-> "ZeroDivisionError", message_date |-> None]

\* variant: the status of the exception is ignored, the default 502 is sent
error_response_default_status(e) ==
    IF e.type = "EntsoeServerError"
    THEN [status |-> 502, error |-> "ENTSO-E API error",
          message_date |-> e.message_date, code |-> e.code]
    ELSE [status |-> 500, error |-> "INTERNAL_SERVER_ERROR",
          message_date |-> e.message_date, code |-> e.type]

\* the JSON error answer; of its branches the two the handlers reach here
error_response(e) ==
    IF e.type = "EntsoeServerError"
    THEN [status |-> e.status, error |-> "ENTSO-E API error",
          message_date |-> e.message_date, code |-> e.code]
    ELSE [status |-> 500, error |-> "INTERNAL_SERVER_ERROR",
          message_date |-> e.message_date, code |-> e.type]

CheapestAdvanced ==
    /\ pc = "request"
    /\ IF all_prices = <<>>
       THEN /\ result = None
            /\ result' = Some(error_response(EntsoeServerError(req.date, 404)))
            /\ pc' = "error"
            /\ UNCHANGED day_data
       ELSE /\ day_data' =
                [cheapest_slots |-> CheapestSubset(all_prices, req.price_threshold_pct),
                 all_slots |-> all_prices,
                 average_ct_per_kwh |-> <<SumSeq(Prices(all_prices)), Len(all_prices)>>]
            /\ pc' = "prepared"
            /\ UNCHANGED result
    /\ UNCHANGED <<all_prices, req, now, resolution_minutes, filtered_slots,
                   attempts, current_price_gap, fallback_applied, grouped_slots,
                   now_pdd, time_blocks, expensive_hour, filter_now>>
    /\ UNCHANGED <<hours, consecutive, normVars, callVars, extVars>>

EmptyReport ==
    [status |-> 200, date |-> req.date,
     average_ct_per_kwh |-> Round3(day_data.average_ct_per_kwh[1],
                                   day_data.average_ct_per_kwh[2]),
     time_blocks |-> <<>>, future_blocks_count |-> 0, total_blocks_count |-> 0,
     resolution_minutes |-> 60, avoid_slot |-> None, fallback_info |-> None]

\* variant: group_consecutive_slots sorts the list it was given in place
ProcessGroup_sorting_in_place ==
    /\ pc = "prepared"
    /\ LET all_slots == day_data.cheapest_slots
           res_min == detect_resolution(all_slots)
           is_today == req.date = DateOf(now)
           filtered ==
               IF is_today
               THEN FilterSeq(all_slots,
                        {i \in 1..Len(all_slots) :
                            belongs_to_today(all_slots[i].hour_local)})
               ELSE all_slots
           tries == FallbackAttempts(filtered, req.max_blocks, req.max_time_gap,
                                     req.max_price_gap, res_min)
       IN IF all_slots = <<>>
          THEN /\ result' = Some(EmptyReport)
               /\ pc' = "done"
               /\ UNCHANGED <<resolution_minutes, filtered_slots, attempts,
                              current_price_gap, fallback_applied, grouped_slots,
                              day_data>>
          ELSE /\ resolution_minutes' = res_min
               /\ filtered_slots' = filtered
               /\ attempts' = tries
               /\ current_price_gap' = tries[Len(tries)].gap
               /\ fallback_applied' = (Len(tries) > 1)
               /\ grouped_slots' = tries[Len(tries)].groups
               /\ pc' = "grouped"
               /\ day_data' =
                      [day_data EXCEPT !.cheapest_slots =
                          IF is_today THEN @
                          ELSE SortedBy(@, [i \in 1..Len(@) |-> <<@[i].position, 1>>])]
               /\ UNCHANGED result
    /\ UNCHANGED <<all_prices, req, now, now_pdd, time_blocks,
                   expensive_hour, filter_now>>
    /\ UNCHANGED <<hours, consecutive, normVars, callVars, extVars>>

\* process_day_data lines 892-972: early return, resolution, night filter, fallback
ProcessGroup ==
    /\ pc = "prepared"
    /\ LET all_slots == day_data.cheapest_slots
           res_min == detect_resolution(all_slots)
           is_today == req.date = DateOf(now)
           filtered ==
               IF is_today
               THEN FilterSeq(all_slots,
                        {i \in 1..Len(all_slots) :
                            belongs_to_today(all_slots[i].hour_local)})
               ELSE all_slots
           tries == FallbackAttempts(filtered, req.max_blocks, req.max_time_gap,
                                     req.max_price_gap, res_min)
       IN IF all_slots = <<>>
          THEN /\ result' = Some(EmptyReport)
               /\ pc' = "done"
               /\ UNCHANGED <<resolution_minutes, filtered_slots, attempts,
                              current_price_gap, fallback_applied, grouped_slots>>
          ELSE /\ resolution_minutes' = res_min
               /\ filtered_slots' = filtered
               /\ attempts' = tries
               /\ current_price_gap' = tries[Len(tries)].gap
               /\ fallback_applied' = (Len(tries) > 1)
               /\ grouped_slots' = tries[Len(tries)].groups
               /\ pc' = "grouped"
               /\ UNCHANGED result
    /\ UNCHANGED <<all_prices, req, now, day_data, now_pdd, time_blocks,
                   expensive_hour, filter_now>>
    /\ UNCHANGED <<hours, consecutive, normVars, callVars, extVars>>

\* process_day_data lines 974-1084: top max_blocks, ranks, past detection
ProcessBlocks ==
    /\ pc = "grouped"
    /\ now_pdd' = now
    /\ LET selected == selected_blocks(grouped_slots, req.max_blocks)
       IN time_blocks' =
              [r \in 1..Len(selected) |->
                  block_data(r, selected[r], req.date, resolution_minutes,
                             day_data.average_ct_per_kwh, now, now)]
    /\ pc' = "blocks"
    /\ UNCHANGED <<all_prices, req, now, day_data, resolution_minutes,
                   filtered_slots, attempts, current_price_gap, fallback_applied,
                   grouped_slots, expensive_hour, filter_now, result>>
    /\ UNCHANGED <<hours, consecutive, normVars, callVars, extVars>>

\* process_day_data lines 1086-1092: the call of find_most_expensive_hour
ProcessExpensive ==
    /\ pc = "blocks"
    /\ expensive_hour' =
           IF day_data.all_slots # <<>>
           THEN find_most_expensive_hour(day_data.all_slots, req.date,
                                         resolution_minutes, now)
           ELSE None
    /\ filter_now' = now
    /\ pc' = "expensive"
    /\ UNCHANGED <<all_prices, req, now, day_data, resolution_minutes,
                   filtered_slots, attempts, current_price_gap, fallback_applied,
                   grouped_slots, now_pdd, time_blocks, result>>
    /\ UNCHANGED <<hours, consecutive, normVars, callVars, extVars>>

Round2(x) == Round3(x, 10) * 10

\* variant: the avoid slot is no longer future at the instant it ends
avoid_slot_of_strict(hour, slot_date, res_min, captured_now, clock) ==
    LET last_expensive == hour.slots[Len(hour.slots)]
        last_end == last_expensive.hour_local + res_min
    IN [time_range |-> hour.time_range,
        duration_minutes |-> hour.duration_minutes,
        avg_price |-> hour.avg_price,
        min_price |-> hour.min_price,
        max_price |-> hour.max_price,
        price_variance |-> hour.max_price - hour.min_price,
        is_future |-> captured_now < last_end,
        individual_slots |-> individual_slots(hour.slots, slot_date, res_min, clock)]

avoid_slot_of(hour, slot_date, res_min, captured_now, clock) ==
    LET last_expensive == hour.slots[Len(hour.slots)]
        last_end == last_expensive.hour_local + res_min
    IN [time_range |-> hour.time_range,
        duration_minutes |-> hour.duration_minutes,
        avg_price |-> hour.avg_price,
        min_price |-> hour.min_price,
        max_price |-> hour.max_price,
        price_variance |-> hour.max_price - hour.min_price,
        is_future |-> captured_now <= last_end,
        individual_slots |-> individual_slots(hour.slots, slot_date, res_min, clock)]

\* process_day_data lines 1093-1178: the avoid slot, the counts, fallback_info
ProcessReport ==
    /\ pc = "expensive"
    /\ result' = Some(
           [status |-> 200, date |-> req.date,
            average_ct_per_kwh |-> Round3(day_data.average_ct_per_kwh[1],
                                          day_data.average_ct_per_kwh[2]),
            time_blocks |-> time_blocks,
            avoid_slot |->
                IF expensive_hour = None THEN None
                ELSE Some(avoid_slot_of(Val(expensive_hour), req.date,
                                        resolution_minutes, now_pdd, now)),
            future_blocks_count |-> future_count(time_blocks),
            total_blocks_count |-> Len(time_blocks),
            resolution_minutes |-> resolution_minutes,
            fallback_info |->
                IF fallback_applied
                THEN Some([applied |-> TRUE,
                           original_price_gap |-> Round2(req.max_price_gap),
                           adjusted_price_gap |-> Round2(current_price_gap)])
                ELSE None])
    /\ pc' = "done"
    /\ UNCHANGED <<all_prices, req, now, day_data, resolution_minutes,
                   filtered_slots, attempts, current_price_gap, fallback_applied,
                   grouped_slots, now_pdd, time_blocks, expensive_hour, filter_now>>
    /\ UNCHANGED <<hours, consecutive, normVars, callVars, extVars>>

-----------------------------------------------------------------------------
(* GET /energy/prices/cheapest-basic *)

PositionsAdjacent(block) ==
    \A j \in 1..(Len(block) - 1) : block[j + 1].position - block[j].position <= 1

RECURSIVE BestBlockFrom(_, _, _, _)
\* lines 1385-1402: the loop over the windows i..i+n-1 of sorted_slots, i
\* counted from 1; best is the window kept so far (<<>> while best_avg is inf)
BestBlockFrom(sorted_slots, n, i, best) ==
    IF i > Len(sorted_slots) - n + 1 THEN best
    ELSE LET block == SubSeq(sorted_slots, i, i + n - 1)
             better ==
                 /\ PositionsAdjacent(block)
                 /\ \/ best = <<>>
                    \/ KeyLess(<<SumSeq(Prices(block)), Len(block)>>,
                               <<SumSeq(Prices(best)), Len(best)>>)
         IN BestBlockFrom(sorted_slots, n, i + 1, IF better THEN block ELSE best)

ByPosition(slots) ==
    SortedBy(slots, [i \in 1..Len(slots) |-> <<slots[i].position, 1>>])

\* sorted(filtered_slots, key=ct_per_kwh)[:hours]
CheapestFirst(slots, n) ==
    LET byPrice == SortedBy(slots, [i \in 1..Len(slots) |-> <<slots[i].ct_per_kwh, 1>>])
    IN SubSeq(byPrice, 1, Min2(n, Len(byPrice)))

\* lines 1381-1421
cheapest_hours_of(filtered, n, consec) ==
    LET best_block == BestBlockFrom(ByPosition(filtered), n, 1, <<>>)
    IN ByPosition(IF consec /\ best_block # <<>> THEN best_block
                  ELSE CheapestFirst(filtered, n))

\* lines 1423-1485: the statistics and the answer
BasicReport(cheapest_hours, res_min) ==
    LET prices == Prices(cheapest_hours)
        result_hours ==
            [k \in 1..Len(cheapest_hours) |->
                LET hour == cheapest_hours[k]
                    is_past == is_past_slot(hour.hour_local, req.date, res_min, now)
                IN [time |-> hour.hour_local % DayMinutes,
                    time_range |-> format_time_range(hour.hour_local,
                                                     hour.hour_local, res_min),
                    price_ct_per_kwh |-> hour.ct_per_kwh,
                    is_past |-> is_past,
                    is_future |-> ~is_past,
                    position |-> hour.position]]
    IN [status |-> 200, date |-> req.date,
        hours_requested |-> hours,
        consecutive_required |-> consecutive,
        hours_found |-> Len(result_hours),
        resolution_minutes |-> res_min,
        cheapest_hours |-> result_hours,
        avg_price_ct_per_kwh |-> Round3(SumSeq(prices), Len(prices)),
        min_price_ct_per_kwh |-> MinSeq(prices),
        max_price_ct_per_kwh |-> MaxSeq(prices),
        day_average_ct_per_kwh |-> Round3(SumSeq(Prices(all_prices)),
                                          Len(all_prices)),
        future_hours_count |->
            Cardinality({k \in 1..Len(result_hours) : result_hours[k].is_future})]

CheapestBasic ==
    /\ pc = "basic_request"
    /\ result = None
    /\ LET res_min == detect_resolution(all_prices)
           is_today == req.date = DateOf(now)
           filtered ==
               IF is_today
               THEN FilterSeq(all_prices,
                        {i \in 1..Len(all_prices) :
                            belongs_to_today(all_prices[i].hour_local)})
               ELSE all_prices
           cheapest_hours == cheapest_hours_of(filtered, hours, consecutive)
       IN IF all_prices = <<>>
          THEN /\ result' = Some(error_response(EntsoeServerError(req.date, 404)))
               /\ pc' = "error"
               /\ UNCHANGED <<resolution_minutes, filtered_slots>>
          ELSE IF cheapest_hours = <<>>
          THEN /\ result' = Some(error_response(ZeroDivisionError))
               /\ pc' = "error"
               /\ resolution_minutes' = res_min
               /\ filtered_slots' = filtered
          ELSE /\ result' = Some(BasicReport(cheapest_hours, res_min))
               /\ pc' = "basic_done"
               /\ resolution_minutes' = res_min
               /\ filtered_slots' = filtered
    /\ UNCHANGED <<all_prices, req, now, day_data, attempts, current_price_gap,
                   fallback_applied, grouped_slots, now_pdd, time_blocks,
                   expensive_hour, filter_now>>
    /\ UNCHANGED <<hours, consecutive, normVars, callVars, extVars>>

\* time passes while the handler runs
Tick ==
    /\ pc \in {"grouped", "blocks", "expensive"}
    /\ \E t \in ClockInstants :
          /\ Today * DayMinutes + t > now
          /\ now' = Today * DayMinutes + t
    /\ UNCHANGED <<all_prices, req, pc, day_data, resolution_minutes,
                   filtered_slots, attempts, current_price_gap, fallback_applied,
                   grouped_slots, now_pdd, time_blocks, expensive_hour, filter_now,
                   result>>
    /\ UNCHANGED <<hours, consecutive, normVars, callVars, extVars>>

BelongsToToday ==
    /\ call.fn = "pending"
    /\ call' = [call EXCEPT !.fn = "belongs_to_today"]
    /\ ret' = Some(belongs_to_today(call.args[1]))
    /\ UNCHANGED <<dayVars, normVars, extVars>>

IsPastSlot ==
    /\ call.fn = "pending"
    /\ call' = [call EXCEPT !.fn = "is_past_slot"]
    /\ ret' = Some(is_past_slot(call.args[1], call.args[2], call.args[3], now))
    /\ UNCHANGED <<dayVars, normVars, extVars>>

NextDay ==
    \/ CheapestAdvanced
    \/ CheapestBasic
    \/ ProcessGroup
    \/ ProcessBlocks
    \/ ProcessExpensive
    \/ ProcessReport
    \/ Tick
    \/ BelongsToToday
    \/ IsPastSlot

SpecDay == InitDay /\ [][NextDay]_vars

-----------------------------------------------------------------------------
(* Two requests served at the same time over one fetched row list *)

\* lines 1578-1614: the day_data the endpoint hands to process_day_data
day_data_of(prices, rq) ==
    [cheapest_slots |-> CheapestSubset(prices, rq.price_threshold_pct),
     all_slots |-> prices,
     average_ct_per_kwh |-> <<SumSeq(Prices(prices)), Len(prices)>>]

\* process_day_data run from its first line to its return with no clock tick
process_day_data(dd, rq, clock) ==
    LET average == Round3(dd.average_ct_per_kwh[1], dd.average_ct_per_kwh[2])
        \* the return statement
        response(res_min, tries, blocks, expensive) ==
            [status |-> 200, date |-> rq.date, average_ct_per_kwh |-> average,
             time_blocks |-> blocks,
             avoid_slot |->
                 IF expensive = None THEN None
                 ELSE Some(avoid_slot_of(Val(expensive), rq.date, res_min,
                                         clock, clock)),
             future_blocks_count |-> future_count(blocks),
             total_blocks_count |-> Len(blocks),
             resolution_minutes |-> res_min,
             fallback_info |->
                 IF Len(tries) > 1
                 THEN Some([applied |-> TRUE,
                            original_price_gap |-> Round2(rq.max_price_gap),
                            adjusted_price_gap |-> Round2(tries[Len(tries)].gap)])
                 ELSE None]
        \* time_blocks of the selected groups, and the most expensive hour
        with_selected(res_min, tries, selected) ==
            response(res_min, tries,
                     [r \in 1..Len(selected) |->
                         block_data(r, selected[r], rq.date, res_min,
                                    dd.average_ct_per_kwh, clock, clock)],
                     IF dd.all_slots # <<>>
                     THEN find_most_expensive_hour(dd.all_slots, rq.date,
                                                   res_min, clock)
                     ELSE None)
        \* grouping with the fallback on max_price_gap, then the selection
        with_filtered(res_min, filtered) ==
            LET tries == FallbackAttempts(filtered, rq.max_blocks,
                                          rq.max_time_gap, rq.max_price_gap,
                                          res_min)
            IN with_selected(res_min, tries,
                             selected_blocks(tries[Len(tries)].groups,
                                             rq.max_blocks))
        \* the filter on today's slots
        with_resolution(all_slots, res_min) ==
            with_filtered(res_min,
                IF rq.date = DateOf(clock)
                THEN FilterSeq(all_slots,
                               {i \in 1..Len(all_slots) :
                                   belongs_to_today(all_slots[i].hour_local)})
                ELSE all_slots)
    IN IF dd.cheapest_slots = <<>>
       THEN [status |-> 200, date |-> rq.date, average_ct_per_kwh |-> average,
             time_blocks |-> <<>>, future_blocks_count |-> 0,
             total_blocks_count |-> 0, resolution_minutes |-> 60,
             avoid_slot |-> None, fallback_info |-> None]
       ELSE with_resolution(dd.cheapest_slots,
                            detect_resolution(dd.cheapest_slots))

\* the second request reaches the endpoint: it reads the shared row list
PeerPrepare ==
    /\ peer_pc = "request"
    /\ all_prices # <<>>
    /\ peer_day_data' = day_data_of(all_prices, peer_req)
    /\ peer_pc' = "prepared"
    /\ UNCHANGED <<peer_req, peer_result>>
    /\ UNCHANGED <<dayVars, normVars, callVars, planVars, clientVars>>

\* the second request runs process_day_data
PeerProcess ==
    /\ peer_pc = "prepared"
    /\ peer_result' = Some(process_day_data(peer_day_data, peer_req, now))
    /\ peer_pc' = "done"
    /\ UNCHANGED <<peer_req, peer_day_data>>
    /\ UNCHANGED <<dayVars, normVars, callVars, planVars, clientVars>>

PairReqs(d) ==
    {[date |-> d, max_blocks |-> mb, max_time_gap |-> 60,
      max_price_gap |-> g, price_threshold_pct |-> pct] :
        mb \in {1, 6}, g \in {300}, pct \in {25, 100}}

InitPair ==
    /\ \E res_text \in {PT15M, PT60M}, slot_date \in {Today, Today + 1},
          f \in [1..NSlots -> {Some(p) : p \in PriceLevels}] :
          /\ all_prices = RowsOf(f, NSlots, res_text, slot_date)
          /\ req \in PairReqs(slot_date) /\ peer_req \in PairReqs(slot_date)
    /\ now = Today * DayMinutes + MaxClock
    /\ pc = "request" /\ peer_pc = "request"
    /\ day_data = NoDayData /\ resolution_minutes = 0 /\ filtered_slots = <<>>
    /\ attempts = <<>> /\ current_price_gap = 0 /\ fallback_applied = FALSE
    /\ grouped_slots = <<>> /\ now_pdd = 0 /\ time_blocks = <<>>
    /\ expensive_hour = None /\ filter_now = 0 /\ result = None
    /\ hours = 4 /\ consecutive = FALSE
    /\ peer_day_data = NoDayData /\ peer_result = None
    /\ CallIdle /\ NormIdle /\ PlanIdle /\ ClientIdle

NextPair ==
    \/ CheapestAdvanced
    \/ ProcessGroup
    \/ ProcessBlocks
    \/ ProcessExpensive
    \/ ProcessReport
    \/ PeerPrepare
    \/ PeerProcess

SpecPair == InitPair /\ [][NextPair]_vars

-----------------------------------------------------------------------------
(* ha_entsoe.py: the planning helper *)

\* the number of rows of the 25-hour day at PT60M
LongDayRows == 25

\* the pairs <<n, share_pct>> with n <= 25 and a whole share_pct in 1..100
\* for which the double n * (share_pct / 100.0) lies above the whole number
\* n * share_pct / 100 (25 * 0.28 is 7.000000000000001)
DoubleProductAbove == {<<25, 28>>, <<25, 56>>}


\* int(math.ceil(n * (share_pct / 100.0)))
ceil_of_share(n, share_pct) ==
    LET exact == (n * share_pct + 99) \div 100
    IN IF <<n, share_pct>> \in DoubleProductAbove THEN exact + 1 ELSE exact

plan_cheapest_hours(prices_rows, share_pct) ==
    IF prices_rows = <<>> THEN <<>>
    ELSE LET n == Len(prices_rows)
             vals == SortedBy(prices_rows,
                              [i \in 1..n |-> <<prices_rows[i].ct_per_kwh, 1>>])
             k == Max2(1, ceil_of_share(n, share_pct))
             first_k == SubSeq(vals, 1, Min2(k, n))
         IN SortedBy([i \in 1..Len(first_k) |-> first_k[i].position],
                     [i \in 1..Len(first_k) |-> <<first_k[i].position, 1>>])

\* the dict of merge_with_fallback as a sequence over 1..max(position);
\* rws are rows [position, value], a later row of a position wins
merge_with_fallback(rws, default) ==
    IF rws = <<>> THEN <<>>
    ELSE LET top == MaxSeq([i \in 1..Len(rws) |-> rws[i].position])
         IN [pos \in 1..top |->
                IF \E i \in 1..Len(rws) : rws[i].position = pos
                THEN rws[CHOOSE i \in 1..Len(rws) :
                            /\ rws[i].position = pos
                            /\ \A j \in (i + 1)..Len(rws) : rws[j].position # pos].value
                ELSE default]

\* None stands for float("nan")
percentile_threshold(values, pct) ==
    IF values = <<>> THEN None
    ELSE LET x == SortedBy(values, [i \in 1..Len(values) |-> <<values[i], 1>>])
             k == Max2(0, Min2(Len(x) - 1, Round3(pct * (Len(x) - 1), 100)))
         IN Some(x[k + 1])

\* lines 864-895 of suggest_automation
plan_of(d, prices, gen, load_rows) ==
    LET cheapest == plan_cheapest_hours(prices, 30)
        load_da_map == merge_with_fallback(load_rows, 0)
        wind_solar_mw(pos) ==
            SumSeq([i \in 1..Len(gen) |->
                       IF gen[i].position = pos THEN gen[i].value ELSE 0])
        price_map == merge_with_fallback([i \in 1..Len(prices) |->
                              [position |-> prices[i].position,
                               value |-> prices[i].ct_per_kwh]], 999000)
        price_p30 == percentile_threshold(price_map, 30)
        load_p80 == percentile_threshold(load_da_map, 80)
        recommended ==
            {pos \in 1..Len(price_map) :
                /\ price_map[pos] <= Val(price_p30)
                /\ \/ wind_solar_mw(pos) > 0
                   \/ /\ load_p80 # None
                      /\ (IF pos \in 1..Len(load_da_map) THEN load_da_map[pos] ELSE 0)
                             <= Val(load_p80)}
        rec_set == recommended \cup {cheapest[i] : i \in 1..Len(cheapest)}
    IN [kind |-> "plan", date |-> d,
        cheapest_hours_positions |-> cheapest,
        recommended_hours_positions |->
            FilterSeq([pos \in 1..Len(price_map) |-> pos], rec_set),
        price_p30_ct_per_kwh |-> price_p30,
        load_p80_mw |-> load_p80]

\* an error raised inside request_entsoe or while parsing its answer
UpstreamError(doc) == [kind |-> "raised", type |-> "EntsoeError", doc |-> doc]

\* raise EntsoeServerError("No prices ...", status=502)
NoPricesError == [kind |-> "raised", type |-> "EntsoeServerError", doc |-> "none"]

\* whether the request_entsoe call about to be made is the one that fails
FailsNow == upstream.fails # None /\ Val(upstream.fails) = Len(requested) + 1

\* lines 849-853: today, the price fetch, the empty check, the cheapest hours
PlanPrices ==
    /\ plan_pc = "start"
    /\ requested' = Append(requested, "A44")
    /\ IF FailsNow
       THEN /\ plan_result' = Some(UpstreamError("A44"))
            /\ plan_pc' = "raised"
            /\ UNCHANGED plan_prices
       ELSE IF upstream.prices = <<>>
       THEN /\ plan_result' = Some(NoPricesError)
            /\ plan_pc' = "raised"
            /\ UNCHANGED plan_prices
       ELSE /\ plan_prices' = upstream.prices
            /\ plan_pc' = "gen"
            /\ UNCHANGED plan_result
    /\ UNCHANGED <<plan_d, skip_a68, upstream, plan_gen, plan_load>>
    /\ UNCHANGED <<dayVars, normVars, callVars, pairVars, clientVars>>


\* line 855: one call_one of get_generation_forecast per psr type
PlanGeneration ==
    /\ plan_pc = "gen"
    /\ requested' = Append(requested, "A69")
    /\ IF FailsNow
       THEN /\ plan_result' = Some(UpstreamError("A69"))
            /\ plan_pc' = "raised"
            /\ UNCHANGED plan_gen
       ELSE /\ plan_gen' = plan_gen \o upstream.gen
            /\ plan_pc' = IF Len(requested') = 1 + Len(<<"B16", "B18", "B19">>)
                          THEN "load" ELSE "gen"
            /\ UNCHANGED plan_result
    /\ UNCHANGED <<plan_d, skip_a68, upstream, plan_prices, plan_load>>
    /\ UNCHANGED <<dayVars, normVars, callVars, pairVars, clientVars>>

\* variant: today counts as a future date
skip_actual_load_from_today(toggle, d, today) == toggle /\ d >= today

\* line 857: SKIP_A68_FOR_FUTURE and d > today
skip_actual_load(toggle, d, today) == toggle /\ d > today

\* lines 857-862: get_day_ahead_total_load_forecast, or the first request of
\* get_total_load
PlanLoadDayAhead ==
    /\ plan_pc = "load"
    /\ requested' = Append(requested, "A65")
    /\ IF FailsNow
       THEN /\ plan_result' = Some(UpstreamError("A65"))
            /\ plan_pc' = "raised"
            /\ UNCHANGED plan_load
       ELSE /\ plan_load' = upstream.load_da
            /\ IF skip_actual_load(skip_a68, plan_d, Today)
               THEN /\ plan_pc' = "returned"
                    /\ plan_result' = Some(plan_of(plan_d, plan_prices, plan_gen,
                                                    upstream.load_da))
               ELSE /\ plan_pc' = "load_actual"
                    /\ UNCHANGED plan_result
    /\ UNCHANGED <<plan_d, skip_a68, upstream, plan_prices, plan_gen>>
    /\ UNCHANGED <<dayVars, normVars, callVars, pairVars, clientVars>>

\* lines 669-680 and 862-895: the second request of get_total_load, the plan
PlanLoadActual ==
    /\ plan_pc = "load_actual"
    /\ requested' = Append(requested, "A68")
    /\ IF FailsNow
       THEN /\ plan_result' = Some(UpstreamError("A68"))
            /\ plan_pc' = "raised"
       ELSE /\ plan_pc' = "returned"
            /\ plan_result' = Some(plan_of(plan_d, plan_prices, plan_gen, plan_load))
    /\ UNCHANGED <<plan_d, skip_a68, upstream, plan_prices, plan_gen, plan_load>>
    /\ UNCHANGED <<dayVars, normVars, callVars, pairVars, clientVars>>

\* a direct call of plan_cheapest_hours
PlanCheapestHours ==
    /\ call.fn = "pending"
    /\ call' = [call EXCEPT !.fn = "plan_cheapest_hours"]
    /\ ret' = Some(plan_cheapest_hours(call.args[1], call.args[2]))
    /\ UNCHANGED <<dayVars, normVars, extVars>>

PlanRow(position, price) == [position |-> position, ct_per_kwh |-> price]


QuantityRow(position, mw) == [position |-> position, value |-> mw]




InitSuggest ==
    /\ plan_d \in {Today - 1, Today, Today + 1}
    /\ skip_a68 \in BOOLEAN
    /\ plan_pc = "start"
    /\ requested = <<>>
    /\ \E prices \in {<<>>, <<PlanRow(1, 5000)>>,
                      <<PlanRow(1, 5000), PlanRow(2, 3000), PlanRow(3, 7000)>>,
                      <<PlanRow(1, 5000), PlanRow(3, 3000)>>},
          gen \in {<<>>, <<QuantityRow(1, 1500)>>, <<QuantityRow(2, 0)>>},
          load_rows \in {<<>>, <<QuantityRow(1, 12000)>>,
                         <<QuantityRow(1, 12000), QuantityRow(2, 9000),
                           QuantityRow(3, 15000)>>},
          fails \in {None} \cup {Some(k) : k \in 1..6} :
          upstream = [prices |-> prices, gen |-> gen, load_da |-> load_rows,
                      fails |-> fails]
    /\ plan_prices = <<>> /\ plan_gen = <<>> /\ plan_load = <<>>
    /\ plan_result = None
    /\ CallIdle



\* direct calls of plan_cheapest_hours
InitPlanCall ==
    /\ \E prices_rows \in
              {[i \in 1..n |-> PlanRow(i, f[i])] :
                   n \in 0..(NSlots + 1), f \in [1..(NSlots + 1) -> SignLevels]}
              \cup {[i \in 1..LongDayRows |-> PlanRow(i, ((i * 7) % LongDayRows) * 100)]},
          share_pct \in {0, 28, 30, 60, 100, 150} :
          call = [fn |-> "pending", args |-> <<prices_rows, share_pct>>]
    /\ ret = None
    /\ PlanIdle

InitPlan ==
    /\ InitSuggest \/ InitPlanCall
    /\ DayIdle /\ NormIdle /\ PairIdle /\ ClientIdle

NextPlan ==
    \/ PlanPrices
    \/ PlanGeneration
    \/ PlanLoadDayAhead
    \/ PlanLoadActual
    \/ PlanCheapestHours

SpecPlan == InitPlan /\ [][NextPlan]_vars

-----------------------------------------------------------------------------
(* ha_entsoe.py: the HTTP wrapper request_entsoe, its file cache, and      *)
(* get_day_ahead_prices on top of it, called repeatedly for one key        *)

MAX_RETRIES == 4
TTL_PRICES_DEFAULT == 24 * 3600
MaxCalls == 3        \* number of get_day_ahead_prices calls for the key

\* the error classes: status and code of each
EntsoeError(type, status) ==
    [kind |-> "raised", type |-> type, status |-> status,
     code |-> CASE type = "EntsoeUnauthorized" -> "UNAUTHORIZED"
                [] type = "EntsoeForbidden" -> "FORBIDDEN"
                [] type = "EntsoeNotFound" -> "NOT_FOUND"
                [] type = "EntsoeRateLimited" -> "RATE_LIMITED"
                [] type = "EntsoeServerError" -> "SERVER_ERROR"
                [] type = "EntsoeParseError" -> "PARSE_ERROR"
                [] OTHER -> "CLIENT_ERROR"]

\* an exception of requests or of anything else, no EntsoeError
OtherException(type) ==
    [kind |-> "raised", type |-> type, status |-> 0, code |-> "none"]

\* what one requests.get can meet: a response with a status, or an exception
HttpExceptions == {"Timeout", "ConnectionError", "ChunkedEncodingError"}

\* the upstream's documents: well formed or not, with or without TimeSeries,
\* with or without a Reason text, and the prices of the points (EUR/MWh)
Documents ==
    {[well_formed |-> TRUE, series |-> 1, text |-> None, prices |-> <<24, 48>>],
     [well_formed |-> TRUE, series |-> 0,
      text |-> Some("No matching data found"), prices |-> <<>>],
     [well_formed |-> FALSE, series |-> 0, text |-> None, prices |-> <<>>]}

\* the exception request_entsoe raises inside the try for a status other than 200
exception_of_status(status) ==
    CASE status = 401 -> EntsoeError("EntsoeUnauthorized", 401)
      [] status = 403 -> EntsoeError("EntsoeForbidden", 403)
      [] status = 404 -> EntsoeError("EntsoeNotFound", 404)
      [] status = 429 -> EntsoeError("EntsoeRateLimited", 429)
      [] status >= 500 /\ status < 600 -> EntsoeError("EntsoeServerError", 502)
      [] OTHER -> EntsoeError("EntsoeError", status)

\* variant: every exception is caught by a retrying except clause
caught_for_retry_every_exception(e) == TRUE

\* the except clauses: EntsoeRateLimited and EntsoeServerError, Timeout and
\* ConnectionError and any other Exception are kept in last_exc for a retry;
\* any other EntsoeError is raised on
caught_for_retry(e) ==
    \/ e.type \in {"EntsoeRateLimited", "EntsoeServerError"}
    \/ e.code = "none"

\* after the loop: the last EntsoeError, or a generic EntsoeServerError
raise_after_retries(exc) ==
    IF exc # None /\ Val(exc).code # "none" THEN Val(exc)
    ELSE EntsoeError("EntsoeServerError", 502)

\* get_day_ahead_prices after request_entsoe has returned: parse_xml,
\* pick_timeseries, ts_points_to_series, rows_from_items_price
prices_of_xml(xml) ==
    IF ~xml.well_formed THEN EntsoeError("EntsoeParseError", 500)
    ELSE IF xml.series = 0 THEN EntsoeError("EntsoeServerError", 502)
    ELSE [kind |-> "returned",
          value |-> [i \in 1..Len(xml.prices) |->
                        [position |-> i,
                         ct_per_kwh |-> eur_mwh_to_ct_kwh(xml.prices[i])]]]

\* get_day_ahead_prices(d, zone, cache_ttl_s) up to the first HTTP attempt:
\* a fresh cache file is returned and parsed; without one the API key is
\* required and the retry loop starts
ClientCall ==
    /\ client_pc = "idle" /\ calls < MaxCalls
    /\ \E ttl \in {0, TTL_PRICES_DEFAULT} :
        /\ cache_ttl_s' = ttl
        /\ calls' = calls + 1
        /\ attempt' = 0 /\ last_response' = None /\ last_exc' = None
        /\ IF /\ ttl # 0 /\ cache_file # None
              /\ wall - Val(cache_file).mtime <= ttl
           THEN /\ xml_result' = Some([kind |-> "returned", value |-> Val(cache_file).text])
                /\ prices_result' = Some(prices_of_xml(Val(cache_file).text))
                /\ client_pc' = "idle"
           ELSE IF ~api_key
           THEN /\ xml_result' = Some(EntsoeError("EntsoeUnauthorized", 401))
                /\ prices_result' = xml_result'
                /\ client_pc' = "idle"
           ELSE /\ xml_result' = None /\ prices_result' = None
                /\ client_pc' = "attempt"
        /\ returned_rows' =
              (returned_rows \/ (prices_result' # None
                                   /\ Val(prices_result').kind = "returned"))
    /\ UNCHANGED <<api_key, wall, cache_file>>
    /\ UNCHANGED <<dayVars, normVars, callVars, pairVars, planVars>>

\* one pass of the retry loop, and what follows it when the loop ends here
HttpAttempt ==
    /\ client_pc = "attempt" /\ attempt < MAX_RETRIES
    /\ attempt' = attempt + 1
    /\ \/ \E xml \in Documents :
            \* status 200: the text is written to the cache file and returned
            /\ last_response' = Some([status |-> 200, exception |-> "none"])
            /\ cache_file' = IF cache_ttl_s # 0
                             THEN Some([text |-> xml, mtime |-> wall])
                             ELSE cache_file
            /\ last_exc' = last_exc
            /\ xml_result' = Some([kind |-> "returned", value |-> xml])
            /\ prices_result' = Some(prices_of_xml(xml))
            /\ client_pc' = "idle"
       \/ \E met \in [status : {302, 400, 401, 403, 404, 429, 500, 503},
                     exception : {"none"}]
                       \cup [status : {0}, exception : HttpExceptions] :
          LET e == IF met.exception = "none" THEN exception_of_status(met.status)
                   ELSE OtherException(met.exception)
          IN
            /\ last_response' = Some(met)
            /\ cache_file' = cache_file
            /\ IF ~caught_for_retry(e)
               THEN /\ last_exc' = last_exc
                    /\ xml_result' = Some(e)
                    /\ client_pc' = "idle"
               ELSE /\ last_exc' = Some(e)
                    /\ IF attempt' < MAX_RETRIES
                       THEN xml_result' = None /\ client_pc' = "attempt"
                       ELSE /\ xml_result' = Some(raise_after_retries(last_exc'))
                            /\ client_pc' = "idle"
            /\ prices_result' = xml_result'
    /\ returned_rows' =
          (returned_rows \/ (prices_result' # None
                               /\ Val(prices_result').kind = "returned"))
    /\ UNCHANGED <<api_key, wall, cache_ttl_s, calls>>
    /\ UNCHANGED <<dayVars, normVars, callVars, pairVars, planVars>>

\* time passes between two calls, half a TTL at a time
ClientTick ==
    /\ client_pc = "idle"
    /\ wall < TTL_PRICES_DEFAULT + TTL_PRICES_DEFAULT \div 2
    /\ wall' = wall + TTL_PRICES_DEFAULT \div 2
    /\ UNCHANGED <<api_key, cache_file, cache_ttl_s, client_pc, attempt,
                   last_response, last_exc, xml_result, prices_result, calls,
                   returned_rows>>
    /\ UNCHANGED <<dayVars, normVars, callVars, pairVars, planVars>>

InitClient ==
    /\ DayIdle /\ NormIdle /\ CallIdle /\ PairIdle /\ PlanIdle
    /\ api_key \in BOOLEAN
    /\ wall = 0 /\ cache_file = None /\ cache_ttl_s = 0
    /\ client_pc = "idle" /\ attempt = 0 /\ last_response = None
    /\ last_exc = None /\ xml_result = None /\ prices_result = None
    /\ calls = 0 /\ returned_rows = FALSE

NextClient ==
    \/ ClientCall
    \/ HttpAttempt
    \/ ClientTick

SpecClient == InitClient /\ [][NextClient]_vars

\* requests.get returns or raises within its timeout and every sleep is
\* capped, so a started pass of the loop comes to its end
SpecClientFair == SpecClient /\ WF_vars(HttpAttempt)

-----------------------------------------------------------------------------
(* Inputs of the normalisation pipeline *)

Point(pos_txt, price, quantity) ==
    [position |-> pos_txt, price |-> price, quantity |-> quantity]

SeqsUpTo(S, n) == UNION {[1..k -> S] : k \in 0..n}



ResolutionTexts ==
    {None, Some(PT15M), Some(PT60M), Some(PT1H), Some(P1D),
     Some(<<"p", "t", "1", "5", "m">>), Some(<<"P", "T", "M">>),
     Some(<<"X">>)}

Period(start, res_text, points) ==
    [start |-> start, resolution |-> res_text, points |-> points]

\* overlapping or adjacent periods of one resolution, values vary
InitValues ==
    \E pts \in SeqsUpTo({Point(pos, v[1], v[2]) :
                            pos \in {<<"1">>, <<"2">>, <<"3">>},
                            v \in {<<Some(24), None>>, <<Some(48), None>>,
                                   <<None, Some(12)>>}}, MaxPoints) :
        \/ \E s \in {0, 120} :
              ts = [start |-> Some(s), resolution |-> Some(PT60M),
                    points |-> pts, periods |-> <<>>]
        \/ \E k \in 0..Len(pts), s2 \in {0, 60} :
              ts = [start |-> None, resolution |-> None, points |-> <<>>,
                    periods |-> <<Period(Some(0), Some(PT60M), SubSeq(pts, 1, k)),
                                  Period(Some(s2), Some(PT60M),
                                         SubSeq(pts, k + 1, Len(pts)))>>]

\* one run of points, position texts, starts and resolutions vary
InitTimeAxis ==
    \E pts \in SeqsUpTo({Point(pos, Some(24), None) :
                            pos \in {<<"1">>, <<"2">>, <<"5">>, <<"2", "5">>,
                                     <<"x">>, <<>>}}, MaxPoints - 1),
       start \in {None, Some(0)}, res_text \in ResolutionTexts :
        \/ ts = [start |-> start, resolution |-> res_text, points |-> pts,
                 periods |-> <<>>]
        \/ ts = [start |-> None, resolution |-> None, points |-> <<>>,
                 periods |-> <<Period(start, res_text, pts)>>]

InitDocument ==
    /\ InitValues \/ InitTimeAxis
    /\ items = <<>> /\ merged = <<>> /\ prefer = "last" /\ rows = <<>>
    /\ npc = "document"
    /\ CallIdle

PT2H == <<"P", "T", "2", "H">>

\* direct calls of resolve_resolution_to_timedelta, among them the empty
\* text and texts with nothing between PT and the unit
InitResolveCall ==
    /\ \E res_text \in ResolutionTexts \cup {Some(<<>>), Some(<<"P", "T", "H">>), Some(PT2H)} :
          call = [fn |-> "pending", args |-> <<res_text>>]
    /\ ret = None
    /\ NormIdle

InitNorm ==
    /\ InitDocument \/ InitResolveCall
    /\ DayIdle
    /\ ExtIdle

-----------------------------------------------------------------------------
(* Steps of the normalisation pipeline *)

TsPointsToSeries ==
    /\ npc = "document"
    /\ LET r == ts_points_to_series(ts)
       IN IF r = None
          THEN npc' = "raised" /\ UNCHANGED items
          ELSE npc' = "items" /\ items' = Val(r)
    /\ UNCHANGED <<ts, merged, prefer, rows>>
    /\ UNCHANGED <<dayVars, callVars, extVars>>

CoalesceByTimestamp ==
    /\ npc = "items"
    /\ \E policy \in {"last", "first", "mean"} :
          /\ prefer' = policy
          /\ merged' = coalesce_by_timestamp(items, policy)
    /\ npc' = "merged"
    /\ UNCHANGED <<ts, items, rows>>
    /\ UNCHANGED <<dayVars, callVars, extVars>>

RowsFromItemsPrice ==
    /\ npc = "items"
    /\ rows' = rows_from_items_price(items)
    /\ npc' = "price_rows"
    /\ UNCHANGED <<ts, items, merged, prefer>>
    /\ UNCHANGED <<dayVars, callVars, extVars>>

RowsFromItemsQuantity ==
    /\ npc = "items"
    /\ rows' = rows_from_items_quantity(items, "load_mw")
    /\ npc' = "quantity_rows"
    /\ UNCHANGED <<ts, items, merged, prefer>>
    /\ UNCHANGED <<dayVars, callVars, extVars>>

\* the call returns a timedelta (in minutes), or raises
ResolveResolution ==
    /\ call.fn = "pending"
    /\ LET r == resolve_resolution_to_timedelta(call.args[1])
       IN /\ ret' = r
          /\ call' = [call EXCEPT !.fn = IF r = None THEN "raised"
                                         ELSE "resolve_resolution_to_timedelta"]
    /\ UNCHANGED <<dayVars, normVars, extVars>>

NextNorm ==
    \/ TsPointsToSeries
    \/ CoalesceByTimestamp
    \/ RowsFromItemsPrice
    \/ RowsFromItemsQuantity
    \/ ResolveResolution

SpecNorm == InitNorm /\ [][NextNorm]_vars

-----------------------------------------------------------------------------
(* Properties of the grouping engine and the fallback controller *)

TrueMin(group) == MinSeq(Prices(group.slots))
TrueMax(group) == MaxSeq(Prices(group.slots))

GroupWithinLimits(group, max_gap_minutes, max_price_gap_ct, res_min) ==
    /\ \A j \in 1..(Len(group.slots) - 1) :
          (group.slots[j + 1].position - group.slots[j].position) * res_min
              <= max_gap_minutes + res_min
    /\ TrueMax(group) - TrueMin(group) <= max_price_gap_ct
    /\ group.min_price = TrueMin(group)
    /\ group.max_price = TrueMax(group)

\* C1: in every group returned by group_consecutive_slots, slots adjacent in
\* the group are at most max_gap_minutes + resolution_minutes apart by
\* position, and the true maximum minus the true minimum of the members'
\* prices is at most the price threshold the grouping was called with.
C1_GroupingCorrectness ==
    \A a \in 1..Len(attempts) :
        \A g \in 1..Len(attempts[a].groups) :
            GroupWithinLimits(attempts[a].groups[g], req.max_time_gap,
                              attempts[a].gap, resolution_minutes)

\* a grouping that merged slots of different prices and also split on price
C1_Witness ==
    \E a \in 1..Len(attempts) :
        /\ \E g \in 1..Len(attempts[a].groups) :
              /\ Len(attempts[a].groups[g].slots) >= 3
              /\ TrueMax(attempts[a].groups[g]) > TrueMin(attempts[a].groups[g])
        /\ Len(attempts[a].groups) >= 2

\* the threshold the specification gives for the final grouping attempt
ExpectedFinalGap ==
    LET gap == req.max_price_gap
        count(g) == Len(group_consecutive_slots(filtered_slots, req.max_time_gap,
                                                g, resolution_minutes))
    IN IF count(gap) >= req.max_blocks THEN gap
       ELSE IF count(gap \div 2) >= req.max_blocks THEN gap \div 2
       ELSE Max2(PRICE_GAP_FLOOR, gap \div 4)

\* C2: the threshold of the final grouping attempt is the initial gap, else
\* gap * 0.5, else max(0.3, gap * 0.25); a third attempt follows every
\* insufficient second one and the final threshold of a relaxed run is never
\* below the floor 0.3.
C2_FinalThreshold ==
    pc = "grouped" => current_price_gap = ExpectedFinalGap

ProbeGaps == {0, 200, 300, 400, 800}

\* C3: a smaller price threshold never gives fewer groups than a larger one
\* for the same slots, and the group count does not decrease from one
\* fallback attempt of process_day_data to the next.
C3_FallbackMonotone ==
    /\ \A a \in 1..(Len(attempts) - 1) :
          /\ attempts[a + 1].gap <= attempts[a].gap
          /\ Len(attempts[a + 1].groups) >= Len(attempts[a].groups)
    /\ pc = "grouped" =>
          LET count == [g \in ProbeGaps |->
                          Len(group_consecutive_slots(filtered_slots,
                                  req.max_time_gap, g, resolution_minutes))]
          IN \A g1 \in ProbeGaps, g2 \in ProbeGaps :
                 g1 <= g2 => count[g1] >= count[g2]

\* three attempts, each with strictly more groups than the one before
C3_Witness ==
    /\ Len(attempts) = 3
    /\ Len(attempts[1].groups) < Len(attempts[2].groups)
    /\ Len(attempts[2].groups) < Len(attempts[3].groups)

-----------------------------------------------------------------------------
(* Properties of the extremum finder and of the day report *)

Report == Val(result)
HasReport == pc = "done" /\ result # None /\ Report.status = 200

\* C7: when the target date is today, no entry of avoid_slot.individual_slots
\* of the day report is classified as past, also when the clock passes a
\* slot's end between the future-slot filter and the per-slot classification.
C7_AvoidExcludesPast ==
    HasReport /\ req.date = DateOf(now) /\ Report.avoid_slot # None
        => \A i \in 1..Len(Val(Report.avoid_slot).individual_slots) :
               ~Val(Report.avoid_slot).individual_slots[i].is_past

\* the slots find_most_expensive_hour may choose from, by the clock it read
FutureSet ==
    {i \in 1..Len(day_data.all_slots) :
        \/ req.date # DateOf(filter_now)
        \/ ~(filter_now > day_data.all_slots[i].hour_local + resolution_minutes)}

FuturePositions == {day_data.all_slots[i].position : i \in FutureSet}
FuturePrice(p) ==
    day_data.all_slots[CHOOSE i \in FutureSet :
                           day_data.all_slots[i].position = p].ct_per_kwh

\* first positions p of the windows p, p+1, p+2, p+3 of future slots
HourWindows == {p \in FuturePositions : \A d \in 1..3 : p + d \in FuturePositions}
WindowSum(p) == FuturePrice(p) + FuturePrice(p + 1) + FuturePrice(p + 2)
                + FuturePrice(p + 3)

SingleHighest(hour, duration) ==
    /\ Len(hour.slots) = 1
    /\ hour.slots[1].position \in FuturePositions
    /\ \A p \in FuturePositions : FuturePrice(p) <= hour.slots[1].ct_per_kwh
    /\ hour.duration_minutes = duration
    /\ hour.avg_price = hour.slots[1].ct_per_kwh

\* C8: at 60-minute resolution find_most_expensive_hour returns the single
\* highest-priced future slot with duration 60; at 15-minute resolution it
\* returns four future slots with consecutive positions whose mean is at
\* least that of every other such window, and only when there is no such
\* window the single highest-priced future slot with duration 15.
C8_ExtremumSelection ==
    pc \in {"expensive", "done"} /\ expensive_hour # None =>
        LET hour == Val(expensive_hour)
        IN IF resolution_minutes = 60 THEN SingleHighest(hour, 60)
           ELSE IF HourWindows # {}
           THEN /\ Len(hour.slots) = 4
                /\ hour.slots[1].position \in HourWindows
                /\ \A d \in 1..3 :
                      hour.slots[1 + d].position = hour.slots[1].position + d
                /\ \A p \in HourWindows :
                      WindowSum(p) <= SumSeq(Prices(hour.slots))
                /\ hour.avg_price = Round3(SumSeq(Prices(hour.slots)), 4)
                /\ hour.duration_minutes = 60
           ELSE SingleHighest(hour, 15)

\* the later of two hour windows of different price was chosen
C8_Witness ==
    /\ pc = "expensive" /\ expensive_hour # None /\ resolution_minutes = 15
    /\ Len(Val(expensive_hour).slots) = 4
    /\ \E p \in HourWindows :
          /\ p < Val(expensive_hour).slots[1].position
          /\ WindowSum(p) < SumSeq(Prices(Val(expensive_hour).slots))

AvgLeq(a, b) == a[1] * b[2] <= b[1] * a[2]

\* C9: every grouping is sorted by average price, cheapest first; the time
\* blocks are the first max_blocks groups of the final grouping with ranks
\* 1, 2, ..., n; rank 1 is the cheapest block and avg_price does not
\* decrease with the rank.
C9_RankedByPrice ==
    /\ \A a \in 1..Len(attempts) :
          \A g \in 1..(Len(attempts[a].groups) - 1) :
              AvgLeq(attempts[a].groups[g].avg_price,
                     attempts[a].groups[g + 1].avg_price)
    /\ HasReport =>
          /\ \A r \in 1..Len(Report.time_blocks) :
                /\ Report.time_blocks[r].rank = r
                /\ Report.time_blocks[r].avg = grouped_slots[r].avg_price
          /\ \A r \in 1..(Len(Report.time_blocks) - 1) :
                Report.time_blocks[r].avg_price <= Report.time_blocks[r + 1].avg_price
          /\ Report.time_blocks # <<>> =>
                \A g \in 1..Len(grouped_slots) :
                    AvgLeq(Report.time_blocks[1].avg, grouped_slots[g].avg_price)

\* the cheapest block is not the earliest one, and a dearer group was cut off
C9_Witness ==
    /\ HasReport
    /\ Len(Report.time_blocks) >= 2
    /\ Len(grouped_slots) > Len(Report.time_blocks)
    /\ Report.time_blocks[1].time_range.from > Report.time_blocks[2].time_range.from
    /\ Report.time_blocks[1].avg_price < Report.time_blocks[2].avg_price

\* C10: the day report has at most max_blocks time blocks,
\* total_blocks_count is their number and future_blocks_count the number of
\* those with is_future, so 0 <= future <= total <= max_blocks.
C10_BlockCounts ==
    HasReport =>
        /\ Len(Report.time_blocks) <= req.max_blocks
        /\ Report.total_blocks_count = Len(Report.time_blocks)
        /\ Report.future_blocks_count =
              Cardinality({r \in 1..Len(Report.time_blocks) :
                              Report.time_blocks[r].is_future})
        /\ 0 <= Report.future_blocks_count
        /\ Report.future_blocks_count <= Report.total_blocks_count
        /\ Report.total_blocks_count <= req.max_blocks

\* the fallback produced more groups than requested; the report is cut
C10_Witness ==
    /\ HasReport /\ fallback_applied
    /\ Len(grouped_slots) > req.max_blocks
    /\ Report.total_blocks_count = req.max_blocks

-----------------------------------------------------------------------------
(* Properties of the normalisation pipeline *)

ItemKeys == {DtKey(items[i].timestamp_local) : i \in 1..Len(items)}
LastWith(key) ==
    items[CHOOSE i \in 1..Len(items) :
             /\ DtKey(items[i].timestamp_local) = key
             /\ \A j \in (i + 1)..Len(items) : DtKey(items[j].timestamp_local) # key]
FirstWith(key) ==
    items[CHOOSE i \in 1..Len(items) :
             /\ DtKey(items[i].timestamp_local) = key
             /\ \A j \in 1..(i - 1) : DtKey(items[j].timestamp_local) # key]

\* the value the claim is about: the price of a price row, else the quantity
ValueOf(item) == IF npc = "price_rows" THEN item.price ELSE item.quantity

\* timestamps that end up with a value after last-wins deduplication
ValuedKeys == {key \in ItemKeys : ValueOf(LastWith(key)) # None}

\* C4: with k distinct timestamps that end up with a non-null value, the row
\* normalizer returns exactly k rows whose positions are 1, 2, ..., k in
\* output order, in strictly increasing hour_local order.
C4_PositionDensity ==
    npc \in {"price_rows", "quantity_rows"} =>
        /\ Len(rows) = Cardinality(ValuedKeys)
        /\ \A i \in 1..Len(rows) : rows[i].position = i
        /\ \A i \in 1..(Len(rows) - 1) : rows[i].hour_local < rows[i + 1].hour_local

\* C5: coalesce_by_timestamp returns one item per distinct timestamp_local
\* of its input, sorted ascending by timestamp_local; with prefer 'last' the
\* survivor of a timestamp is the item that came last in the input, with
\* prefer 'first' the one that came first.
C5_OnePerTimestamp ==
    npc = "merged" =>
        /\ Len(merged) = Cardinality(ItemKeys)
        /\ {DtKey(merged[i].timestamp_local) : i \in 1..Len(merged)} = ItemKeys
        /\ \A i \in 1..(Len(merged) - 1) :
              DtKey(merged[i].timestamp_local) < DtKey(merged[i + 1].timestamp_local)
        /\ prefer = "last" =>
              \A i \in 1..Len(merged) :
                  merged[i] = LastWith(DtKey(merged[i].timestamp_local))
        /\ prefer = "first" =>
              \A i \in 1..Len(merged) :
                  merged[i] = FirstWith(DtKey(merged[i].timestamp_local))

\* two items of one timestamp with different prices were merged last-wins,
\* and the input was not in time order
C5_Witness ==
    /\ npc = "merged" /\ prefer = "last"
    /\ Len(merged) >= 2
    /\ \E key \in ItemKeys : FirstWith(key).price # LastWith(key).price
    /\ \E i \in 1..(Len(items) - 1) :
          DtKey(items[i].timestamp_local) > DtKey(items[i + 1].timestamp_local)

\* the step a resolution text stands for, and the number a position text
\* stands for, as the upstream format defines them
StepOf(res_text) ==
    IF res_text = None THEN 60
    ELSE CASE Val(res_text) = PT15M -> 15
           [] Val(res_text) = <<"p", "t", "1", "5", "m">> -> 15
           [] Val(res_text) = PT60M -> 60
           [] Val(res_text) = PT1H -> 60
           [] Val(res_text) = PT2H -> 120
           [] Val(res_text) = P1D -> 1440
           [] OTHER -> 60

PositionOf(pos_txt) ==
    CASE pos_txt = <<"1">> -> 1 [] pos_txt = <<"2">> -> 2 [] pos_txt = <<"3">> -> 3
      [] pos_txt = <<"5">> -> 5 [] pos_txt = <<"2", "5">> -> 25 [] OTHER -> 0

RECURSIVE ExpectedInstants(_, _, _)
\* start + (position - 1) * step for the points with a position, in order
ExpectedInstants(points, start, step) ==
    IF points = <<>> THEN <<>>
    ELSE LET front == ExpectedInstants(SubSeq(points, 1, Len(points) - 1),
                                       start, step)
             p == PositionOf(points[Len(points)].position)
         IN IF p = 0 THEN front ELSE Append(front, start + (p - 1) * step)

RECURSIVE ExpectedOfPeriods(_)
ExpectedOfPeriods(k) ==
    IF k = 0 THEN <<>>
    ELSE ExpectedOfPeriods(k - 1)
         \o ExpectedInstants(ts.periods[k].points, StartOf(ts.periods[k].start),
                             StepOf(ts.periods[k].resolution))

\* C6: every Point with a parsable position p in a Period with UTC start s
\* and step r gives an item at the instant s + (p - 1) * r; without a Period
\* element the TimeSeries' own start and resolution are s and r.
C6_TimeAxis ==
    npc = "items" =>
        [i \in 1..Len(items) |-> items[i].timestamp_local.utc]
            = IF ts.periods = <<>>
              THEN ExpectedInstants(ts.points, StartOf(ts.start),
                                    StepOf(ts.resolution))
              ELSE ExpectedOfPeriods(Len(ts.periods))

\* a series without Period, PT15M, whose position 5 lies one hour after start
C6_Witness ==
    /\ npc = "items" /\ ts.periods = <<>> /\ ts.resolution = Some(PT15M)
    /\ ts.start = Some(0)
    /\ \E i \in 1..Len(ts.points) : ts.points[i].position = <<"5">>
    /\ \E i \in 1..Len(items) : items[i].timestamp_local.utc = 60
    /\ Len(items) >= 2

-----------------------------------------------------------------------------
(* Degenerate inputs of the day processor *)

-----------------------------------------------------------------------------
(* Metadata and flags of the day report *)

\* C12: the day report has fallback_info, with applied = true, exactly when
\* the first grouping gave fewer than max_blocks groups; its original value
\* is the initial max_price_gap and its adjusted value is the threshold the
\* final grouping attempt was made with (0.75, 0.375 or 0.3 for an initial
\* gap of 1.5).
C12_FallbackInfo ==
    HasReport /\ attempts # <<>> =>
        /\ Report.fallback_info # None
               <=> Len(attempts[1].groups) < req.max_blocks
        /\ Report.fallback_info # None =>
               /\ Val(Report.fallback_info).applied
               /\ Val(Report.fallback_info).original_price_gap = req.max_price_gap
               /\ Val(Report.fallback_info).adjusted_price_gap
                      = attempts[Len(attempts)].gap

UniformDay ==
    \A i \in 1..Len(day_data.all_slots) :
        day_data.all_slots[i].ct_per_kwh = day_data.all_slots[1].ct_per_kwh

\* C13: is_best is true only for a block whose average is below 85% of the
\* day average, a block at least 15% cheaper than the average; when every
\* slot of the day has the same price, positive, zero or negative, is_best
\* is false for every block.
C13_IsBest ==
    HasReport =>
        \A r \in 1..Len(Report.time_blocks) :
            LET avg == Report.time_blocks[r].avg
                day == day_data.average_ct_per_kwh
            IN /\ Report.time_blocks[r].is_best =>
                     /\ avg[1] * 100 * day[2] < 85 * day[1] * avg[2]
                     /\ KeyLess(avg, day)
               /\ UniformDay => ~Report.time_blocks[r].is_best

ContiguousGroup(group) ==
    \A j \in 1..(Len(group.positions) - 1) :
        group.positions[j + 1] - group.positions[j] = 1

\* C14: with the default max_gap_minutes of group_consecutive_slots (30) and
\* with the default of process_day_data and of the endpoint (60), the
\* members of every group have positions that differ by exactly 1 from one
\* member to the next, so that the time_range of a time block covers
\* member slots only and duration_minutes is the length of that range.
C14_ContiguousBlocks ==
    /\ pc = "grouped" =>
          LET groups == group_consecutive_slots(filtered_slots, 30,
                            req.max_price_gap, resolution_minutes)
          IN \A g \in 1..Len(groups) : ContiguousGroup(groups[g])
    /\ req.max_time_gap = 60 =>
          \A a \in 1..Len(attempts) :
              \A g \in 1..Len(attempts[a].groups) :
                  ContiguousGroup(attempts[a].groups[g])
    /\ HasReport /\ req.max_time_gap = 60 =>
          \A r \in 1..Len(Report.time_blocks) :
              Report.time_blocks[r].duration_minutes
                  = Report.time_blocks[r].time_range.to
                    - Report.time_blocks[r].time_range.from

-----------------------------------------------------------------------------
(* Time helpers *)

\* minute of the day of a parseable hour_local
MinuteOfDay(hour_local) == hour_local % DayMinutes

EarlySlots(slots) ==
    {i \in 1..Len(slots) : MinuteOfDay(slots[i].hour_local) < 6 * 60}

\* C15: belongs_to_today(hour_local) is false exactly when the local hour is
\* below 6, and true for a text that does not parse; when process_day_data
\* handles today's date no time block has a slot between 00:00 and 05:59,
\* and when it handles another date no cheap slot is removed.
C15_EarlyTomorrowFilter ==
    /\ call.fn = "belongs_to_today" =>
          Val(ret) = (IF call.args[1] = Garbage THEN TRUE
                      ELSE ~(MinuteOfDay(call.args[1]) < 6 * 60))
    /\ attempts # <<>> /\ req.date = Today =>
          /\ EarlySlots(filtered_slots) = {}
          /\ filtered_slots =
                 FilterSeq(day_data.cheapest_slots,
                     (1..Len(day_data.cheapest_slots))
                         \ EarlySlots(day_data.cheapest_slots))
    /\ HasReport /\ req.date = Today =>
          \A r \in 1..Len(Report.time_blocks) :
              \A i \in 1..Len(Report.time_blocks[r].individual_slots) :
                  Report.time_blocks[r].individual_slots[i].time >= 6 * 60
    /\ attempts # <<>> /\ req.date # Today =>
          filtered_slots = day_data.cheapest_slots

\* today's report has a block although cheap slots before 06:00 were removed
C15_Witness ==
    /\ HasReport /\ req.date = Today
    /\ EarlySlots(day_data.cheapest_slots) # {}
    /\ Report.time_blocks # <<>>

\* C16: is_past_slot returns true when slot_date is before today and false
\* when it is after today, whatever hour_local is; for today's date it
\* returns true iff the current local time is strictly later than the slot
\* start plus the resolution, so not at the very instant the slot ends; a
\* text that does not parse gives false on today's date.
C16_IsPastSlot ==
    call.fn = "is_past_slot" =>
        LET hour_local == call.args[1]
            slot_date == call.args[2]
            res_min == call.args[3]
        IN /\ slot_date < DateOf(now) => Val(ret) = TRUE
           /\ slot_date > DateOf(now) => Val(ret) = FALSE
           /\ slot_date = DateOf(now) /\ hour_local = Garbage => Val(ret) = FALSE
           /\ slot_date = DateOf(now) /\ hour_local # Garbage =>
                 (Val(ret) <=> now > hour_local + res_min)

\* a call for a slot of today at the very instant the slot ends
C16_Witness ==
    /\ call.fn = "is_past_slot" /\ call.args[2] = DateOf(now)
    /\ call.args[1] # Garbage
    /\ now = call.args[1] + call.args[3]
    /\ Val(ret) = FALSE

\* the instant the last slot of a run of slots ends
LastEnd(slots) == slots[Len(slots)].hour_local + resolution_minutes

\* time blocks of the report that end when the avoid slot ends, the clock
\* of process_day_data standing at that very instant
BlocksEndingNowWithAvoid ==
    {r \in 1..Len(time_blocks) :
        /\ expensive_hour # None
        /\ LastEnd(grouped_slots[r].slots) = LastEnd(Val(expensive_hour).slots)
        /\ now_pdd = LastEnd(grouped_slots[r].slots)}

-----------------------------------------------------------------------------
(* Properties of deduplication and of the resolution resolver *)

\* C18: for every item list and every policy (last, first, mean),
\* coalesce_by_timestamp applied to its own output returns the same items
\* in the same order with the same price and quantity values.
C18_CoalesceIdempotent ==
    npc = "merged" => coalesce_by_timestamp(merged, prefer) = merged

\* a mean-policy run that merged two items of different price into one and
\* kept at least two timestamps
C18_Witness ==
    /\ npc = "merged" /\ prefer = "mean"
    /\ Len(merged) >= 2 /\ Len(merged) < Len(items)
    /\ \E k \in 1..Len(merged) :
          /\ merged[k].price # None
          /\ \A i \in 1..Len(items) : items[i].price # merged[k].price

\* C19: resolve_resolution_to_timedelta maps PT<N>M to N minutes, PT<N>H to
\* N hours, P1D to one day and every other input (None, the empty text,
\* garbage, PT followed by M or H with no integer in between) to 60
\* minutes; it never raises.
C19_ResolveTotal ==
    call.fn \in {"resolve_resolution_to_timedelta", "raised"} =>
        /\ call.fn # "raised"
        /\ ret = Some(StepOf(call.args[1]))

-----------------------------------------------------------------------------
(* Days without price rows *)

\* C20: when the fetch returns an empty row list for the requested date,
\* cheapest-basic and cheapest-advanced answer with HTTP status 404 and an
\* error message that names the date, never with a successful empty report.
C20_EmptyFetchNotFound ==
    all_prices = <<>> /\ pc \notin {"idle", "request", "basic_request"} =>
        /\ pc = "error" /\ result # None
        /\ Report.status = 404
        /\ Report.error = "ENTSO-E API error"
        /\ Report.message_date = Some(req.date)

\* a cheapest-basic request for tomorrow, consecutive hours asked for, that
\* found no row and was answered 404
C20_Witness ==
    /\ all_prices = <<>> /\ pc = "error" /\ result # None
    /\ hours = 2 /\ consecutive /\ req.date = Today + 1
    /\ Report.status = 404 /\ Report.message_date = Some(Today + 1)

-----------------------------------------------------------------------------
(* The answer of cheapest-basic *)

\* the rows cheapest-basic may choose from: all rows, minus the early hours
\* when the requested date is today
EligibleSlots ==
    IF req.date = DateOf(now)
    THEN FilterSeq(all_prices, {i \in 1..Len(all_prices) :
                                   HourOf(all_prices[i].hour_local) >= 6})
    ELSE all_prices

\* C21: whenever the fetch returns at least one row, cheapest-basic with
\* consecutive = false answers 200, cheapest_hours has exactly hours_found =
\* min(hours, number of eligible slots) entries, they are the lowest-priced
\* eligible slots in ascending position order, and the answer is never an
\* internal error (500).
C21_CheapestBasic ==
    pc \in {"basic_done", "error"} /\ all_prices # <<>> /\ ~consecutive =>
        /\ pc = "basic_done" /\ Report.status = 200
        /\ Report.hours_found = Min2(hours, Len(EligibleSlots))
        /\ Len(Report.cheapest_hours) = Report.hours_found
        /\ LET chosen == {Report.cheapest_hours[k].position :
                              k \in 1..Len(Report.cheapest_hours)}
           IN /\ \A k \in 1..(Len(Report.cheapest_hours) - 1) :
                     Report.cheapest_hours[k].position
                         < Report.cheapest_hours[k + 1].position
              /\ \A k \in 1..Len(Report.cheapest_hours) :
                     \E i \in 1..Len(EligibleSlots) :
                        /\ EligibleSlots[i].position = Report.cheapest_hours[k].position
                        /\ EligibleSlots[i].ct_per_kwh
                               = Report.cheapest_hours[k].price_ct_per_kwh
              /\ \A i, j \in 1..Len(EligibleSlots) :
                     /\ EligibleSlots[i].position \in chosen
                     /\ EligibleSlots[j].position \notin chosen
                     => EligibleSlots[i].ct_per_kwh <= EligibleSlots[j].ct_per_kwh

-----------------------------------------------------------------------------
(* Two requests over one row list *)

\* what a request gets when it is served alone
ServedAlone(rq) == process_day_data(day_data_of(all_prices, rq), rq, now)

InputsUnchanged ==
    /\ all_prices' = all_prices
    /\ pc # "request" => day_data' = day_data
    /\ peer_pc # "request" => peer_day_data' = peer_day_data

\* C22: group_consecutive_slots, find_most_expensive_hour and
\* process_day_data leave their inputs as they were (the order of the row
\* list and every field of every row), and two requests served in any
\* interleaving over the same row list each get the result they get when
\* served alone.
C22_PurelyFunctional ==
    /\ [][InputsUnchanged]_vars
    /\ [](/\ pc = "done" /\ result # None => Report = ServedAlone(req)
          /\ peer_pc = "done" => Val(peer_result) = ServedAlone(peer_req))

\* both requests are answered, with different parameters and different
\* reports, and the first worked on a cheapest list that is not in position
\* order
C22_Witness ==
    /\ pc = "done" /\ peer_pc = "done" /\ result # None
    /\ req # peer_req /\ result # peer_result
    /\ Report.time_blocks # <<>>
    /\ \E i \in 1..(Len(day_data.cheapest_slots) - 1) :
          day_data.cheapest_slots[i].position
              > day_data.cheapest_slots[i + 1].position

-----------------------------------------------------------------------------
(* Grouping as a partition *)

RECURSIVE Flatten(_)
Flatten(lists) == IF lists = <<>> THEN <<>> ELSE Head(lists) \o Flatten(Tail(lists))

\* the groups in the order of their first position
InTimeOrder(groups) ==
    SortedBy(groups, [g \in 1..Len(groups) |-> <<groups[g].slots[1].position, 1>>])

PartitionOf(input, groups) ==
    LET sorted_input == ByPosition(input)
        ordered == InTimeOrder(groups)
    IN /\ \A g \in 1..Len(groups) : groups[g].slots # <<>>
       \* every slot in exactly one group, none added or lost, runs of the
       \* position-sorted input
       /\ Flatten([g \in 1..Len(ordered) |-> ordered[g].slots]) = sorted_input
       /\ \A g \in 1..Len(groups) :
             LET group == groups[g]
                 n == Len(group.slots)
             IN /\ group.start = group.slots[1].hour_local
                /\ group.end = group.slots[n].hour_local
                /\ group.positions = [j \in 1..n |-> group.slots[j].position]
                /\ group.avg_price[1] = SumSeq(Prices(group.slots))
                /\ group.avg_price[2] = n

\* C27: group_consecutive_slots partitions its input: every input slot is in
\* exactly one returned group and none is added or lost; each group is a run
\* of consecutive elements of the position-sorted input; start and end are
\* the hour_local of the first and last member, positions lists the members'
\* positions in order, and avg_price is the mean of the members' prices.
C27_GroupsPartition ==
    pc = "grouped" =>
        \A k \in 1..Len(attempts) : PartitionOf(filtered_slots, attempts[k].groups)

\* slots handed over out of position order that one grouping put into one
\* group of two and a later grouping, with a smaller price gap, into two groups
C27_Witness ==
    /\ pc = "grouped"
    /\ \E i \in 1..(Len(filtered_slots) - 1) :
          filtered_slots[i].position > filtered_slots[i + 1].position
    /\ \E k \in 1..Len(attempts) :
          \E g \in 1..Len(attempts[k].groups) :
             Len(attempts[k].groups[g].slots) >= 2
    /\ \E k \in 1..Len(attempts) : Len(attempts[k].groups) >= 2

-----------------------------------------------------------------------------
(* The resolution of the day report *)

\* C30: resolution_minutes in the result of process_day_data is 15 whenever
\* the rows carry resolution PT15M and 60 whenever they carry PT60M or PT1H,
\* whatever the number of rows in the cheapest subset, a single row included.
C30_ResolutionOfData ==
    HasReport /\ day_data.cheapest_slots # <<>> =>
        Report.resolution_minutes
            = ResMinutesOf(day_data.cheapest_slots[1].resolution)

-----------------------------------------------------------------------------
(* Row positions and time *)

\* C28: for rows produced by rows_from_items_price from one resolution,
\* (position_b - position_a) * resolution equals the difference between the
\* two rows' timestamps, so the position-based gap of grouping is the real
\* time gap, also when the upstream document has no point for some
\* timestamps or has points without a price.
C28_PositionGapIsTimeGap ==
    npc = "price_rows" =>
        \A a, b \in 1..Len(rows) :
            (rows[b].position - rows[a].position) * StepOf(Some(rows[a].resolution))
                = rows[b].hour_local - rows[a].hour_local

-----------------------------------------------------------------------------
(* Deduplication and absolute time *)

UtcInstants == {items[i].timestamp_local.utc : i \in 1..Len(items)}

LastAtInstant(u) ==
    items[CHOOSE i \in 1..Len(items) :
             /\ items[i].timestamp_local.utc = u
             /\ \A j \in (i + 1)..Len(items) : items[j].timestamp_local.utc # u]

\* C29: two points whose absolute UTC instants differ are never put in the
\* same bucket by coalesce_by_timestamp, so the price rows are one per
\* distinct UTC instant with a price, the two instants that share one local
\* wall-clock time on the day the zone falls back from daylight-saving time
\* included.
C29_OneRowPerInstant ==
    /\ npc = "merged" => Len(merged) = Cardinality(UtcInstants)
    /\ npc = "price_rows" =>
          Len(rows) = Cardinality({u \in UtcInstants : LastAtInstant(u).price # None})

-----------------------------------------------------------------------------
(* The requests of the planning helper *)

IsPrefix(a, b) == Len(a) <= Len(b) /\ a = SubSeq(b, 1, Len(a))

ForecastOnly == <<"A44", "A69", "A69", "A69", "A65">>
WithActualLoad == <<"A44", "A69", "A69", "A69", "A65", "A68">>

\* C23: with SKIP_A68_FOR_FUTURE on and a date after today the request_entsoe
\* calls of suggest_automation are A44, A69 and A65 and never A68; for
\* today or an earlier date, or with the toggle off, the A65 and then the
\* A68 request are made; and when there are no prices EntsoeServerError is
\* raised before any load request.
C23_SkipA68ForFuture ==
    /\ skip_a68 /\ plan_d > Today =>
          /\ IsPrefix(requested, ForecastOnly)
          /\ plan_pc = "returned" => requested = ForecastOnly
    /\ ~(skip_a68 /\ plan_d > Today) =>
          /\ IsPrefix(requested, WithActualLoad)
          /\ plan_pc = "returned" => requested = WithActualLoad
          /\ plan_pc = "load_actual" => requested = ForecastOnly
    /\ plan_pc \notin {"idle", "start"} /\ upstream.prices = <<>>
         /\ upstream.fails # Some(1) =>
          /\ plan_pc = "raised" /\ plan_result = Some(NoPricesError)
          /\ requested = <<"A44">>

\* a plan for tomorrow made with the toggle on
C23_Witness ==
    /\ plan_pc = "returned" /\ skip_a68 /\ plan_d = Today + 1
    /\ requested = ForecastOnly
    /\ Val(plan_result).kind = "plan"
    /\ Val(plan_result).cheapest_hours_positions # <<>>

\* C24: plan_cheapest_hours(rows, share_pct) returns, in ascending order,
\* the positions of the k lowest-priced rows, k = max(1, ceil(n * share_pct /
\* 100)) capped at n = len(rows); every returned position has a price <= the
\* price of every position not returned; an empty row list gives [].
C24_PlanCheapestHours ==
    call.fn = "plan_cheapest_hours" =>
        LET prices_rows == call.args[1]
            share_pct == call.args[2]
            n == Len(prices_rows)
            out == Val(ret)
            k == Min2(n, Max2(1, (n * share_pct + 99) \div 100))
            chosen == {out[i] : i \in 1..Len(out)}
        IN IF n = 0 THEN out = <<>>
           ELSE /\ Len(out) = k
                /\ \A i \in 1..(Len(out) - 1) : out[i] < out[i + 1]
                /\ chosen \subseteq {prices_rows[i].position : i \in 1..n}
                /\ \A i, j \in 1..n :
                      /\ prices_rows[i].position \in chosen
                      /\ prices_rows[j].position \notin chosen
                      => prices_rows[i].ct_per_kwh <= prices_rows[j].ct_per_kwh


-----------------------------------------------------------------------------
(* The retry protocol of request_entsoe *)

RetriedResponses ==
    [status : {429, 500, 503}, exception : {"none"}]
        \cup [status : {0}, exception : HttpExceptions]

\* what a call that made HTTP attempts ends with, by the response of its
\* latest attempt
EndsAsStated ==
    LET r == Val(last_response).status
        x == Val(xml_result)
    IN CASE r = 200 -> x.kind = "returned" /\ x.value \in Documents
         [] r = 401 -> x.kind = "raised" /\ x.type = "EntsoeUnauthorized"
         [] r = 403 -> x.kind = "raised" /\ x.type = "EntsoeForbidden"
         [] r = 404 -> x.kind = "raised" /\ x.type = "EntsoeNotFound"
         [] r = 429 -> /\ attempt = MAX_RETRIES
                       /\ x.kind = "raised" /\ x.type = "EntsoeRateLimited"
         [] r \in {0, 500, 503} ->
                       /\ attempt = MAX_RETRIES
                       /\ x.kind = "raised" /\ x.type = "EntsoeServerError"
                       /\ x.status = 502
         [] OTHER -> /\ x.kind = "raised" /\ x.type = "EntsoeError"
                     /\ x.code = "CLIENT_ERROR" /\ x.status = r

RetryProtocol ==
    /\ attempt <= MAX_RETRIES
    /\ client_pc = "attempt" /\ attempt > 0 =>
          Val(last_response) \in RetriedResponses /\ attempt < MAX_RETRIES
    /\ client_pc = "idle" /\ attempt > 0 => xml_result # None /\ EndsAsStated

\* C25: without a cache hit request_entsoe makes at most MAX_RETRIES HTTP
\* attempts and comes to an end; a 200 ends it with the body returned; 401,
\* 403, 404 and any other 3xx/4xx but 429 end it on that attempt with
\* EntsoeUnauthorized, EntsoeForbidden, EntsoeNotFound or a CLIENT_ERROR
\* EntsoeError of that status; 429, 5xx, timeouts and connection errors are
\* followed by another attempt while one is left, and after the last one the
\* EntsoeRateLimited or EntsoeServerError (502) of the last response is raised,
\* a generic EntsoeServerError after a network exception
C25_RetryProtocol ==
    /\ []RetryProtocol
    /\ (client_pc = "attempt") ~> (client_pc = "idle")

C25_Witness ==
    /\ client_pc = "idle" /\ attempt = MAX_RETRIES
    /\ last_response = Some([status |-> 0, exception |-> "Timeout"])
    /\ xml_result = Some(EntsoeError("EntsoeServerError", 502))
    /\ calls = 2

-----------------------------------------------------------------------------
(* The file cache of get_day_ahead_prices *)

\* C26: the cache file of the key exists only if an earlier
\* get_day_ahead_prices call for the key has returned rows; a call that
\* raised leaves no cache file behind
C26_CacheOnlyAfterRows ==
    cache_file # None => returned_rows

====
